---- MODULE Spec2Model ----
(***************************************************************************)
(* Model of the pressure-projection time step of SARAS (eulerCN_d3) and of *)
(* the field layer it rests on: src/lib/timestep/eulerCN_d3.cc,            *)
(* src/lib/field/{field,sfield,plainvf}.cc, src/lib/io/tseries.h.          *)
(*                                                                         *)
(* Every MPI process (rank) owns one sub-domain.  A rank's local work      *)
(* between two collective operations is one action per statement group;    *)
(* a collective (halo exchange, MPI_Allreduce, multigrid solve) is one     *)
(* action that fires when every rank has reached it.                       *)
(***************************************************************************)
EXTENDS Integers, Sequences, FiniteSets, TLC

(***************************************************************************)
(* The type real.  A finite real is an integer count of 1/Scale; every     *)
(* product and quotient is rounded toward zero to that precision, as a     *)
(* floating-point operation rounds to the precision of its format.  NaN    *)
(* stands for every non-finite value (+inf, -inf, NaN) and is absorbing.   *)
(***************************************************************************)
Scale == 16

One == Scale

Half == Scale \div 2

Two == 2 * Scale

NaN == -1000000

Finite(a) == a # NaN

Abs(n) == IF n < 0 THEN -n ELSE n

\* integer quotient rounded toward zero
Trunc(n, d) == IF (n < 0) = (d < 0) THEN Abs(n) \div Abs(d) ELSE -(Abs(n) \div Abs(d))

RAdd(a, b) == IF a = NaN \/ b = NaN THEN NaN ELSE a + b

RSub(a, b) == IF a = NaN \/ b = NaN THEN NaN ELSE a - b

RMul(a, b) == IF a = NaN \/ b = NaN THEN NaN ELSE Trunc(a * b, Scale)

\* x / 0 is +-inf or NaN in IEEE arithmetic
RDiv(a, b) == IF a = NaN \/ b = NaN \/ b = 0 THEN NaN ELSE Trunc(a * Scale, b)

RAbs(a) == IF a = NaN THEN NaN ELSE Abs(a)

\* a < b on reals: false whenever an operand is not a number
RLess(a, b) == a # NaN /\ b # NaN /\ a < b

RMax(a, b) == IF a = NaN \/ b = NaN THEN NaN ELSE IF a < b THEN b ELSE a

(***************************************************************************)
(* The grid.  Ranks are laid out along x; every rank has the same core     *)
(* size (the sub-domains are load-balanced, field.cc:98-100).  Index 0 is  *)
(* the first core cell, the pads lie outside 0..N-1.                       *)
(***************************************************************************)
NRanks == 2

Ranks == 0 .. (NRanks - 1)

coreSize == <<3, 1, 1>>

padWidths == <<1, 1, 1>>

Axis == 1 .. 3

fullDomain == [d \in Axis |-> (0 - padWidths[d]) .. (coreSize[d] + padWidths[d] - 1)]

coreDomain == [d \in Axis |-> 0 .. (coreSize[d] - 1)]

Cells == fullDomain[1] \X fullDomain[2] \X fullDomain[3]

core == coreDomain[1] \X coreDomain[2] \X coreDomain[3]

\* uniform computational spacings
dXi == One

dEt == One

dZt == One

\* metric terms of the stretching map: a uniform physical grid
xi_x(i) == One

xix2(i) == One

xixx(i) == 0

et_y(j) == One

ety2(j) == One

etyy(j) == 0

zt_z(k) == One

ztz2(k) == One

ztzz(k) == 0

\* eulerCN_d3::setCoefficients
hx2 == RMul(dXi, dXi)

hy2 == RMul(dEt, dEt)

hz2 == RMul(dZt, dZt)

i2hx == RDiv(Half, dXi)

i2hy == RDiv(Half, dEt)

i2hz == RDiv(Half, dZt)

ihx2 == RDiv(One, hx2)

ihy2 == RDiv(One, hy2)

ihz2 == RDiv(One, hz2)

\* physical constants
nu == One

kappa == One

(***************************************************************************)
(* Arrays over the full index box and their elementwise arithmetic.        *)
(***************************************************************************)
Fill(a) == [c \in Cells |-> a]

ArrAdd(A, B) == [c \in Cells |-> RAdd(A[c], B[c])]

ArrSub(A, B) == [c \in Cells |-> RSub(A[c], B[c])]

ArrScale(A, k) == [c \in Cells |-> RMul(A[c], k)]

\* A with its core cells replaced by those of B
SetCore(A, B) == [c \in Cells |-> IF c \in core THEN B[c] ELSE A[c]]

Xp(c) == <<c[1] + 1, c[2], c[3]>>

Xm(c) == <<c[1] - 1, c[2], c[3]>>

Yp(c) == <<c[1], c[2] + 1, c[3]>>

Ym(c) == <<c[1], c[2] - 1, c[3]>>

Zp(c) == <<c[1], c[2], c[3] + 1>>

Zm(c) == <<c[1], c[2], c[3] - 1>>

ArrFinite(A) == \A c \in Cells : Finite(A[c])

\* blitz::max of |A| over the cells of set S (S not empty)
MaxOver(A, S) ==
    LET vals == {RAbs(A[c]) : c \in S}
    IN  IF NaN \in vals THEN NaN ELSE CHOOSE m \in vals : \A x \in vals : x <= m

VARIABLES
    inputParams,        \* mesh.inputParams: lesModel, cnTolerance, tStp, xPer, yPer, zPer
    setup,              \* what the caller configures: overload, build flag, BCs, forcing, initial condition
    dt,                 \* the step size the time-step object was constructed with
    solTime,            \* [rank] the solver time
    pc,                 \* [rank] position of the rank in its program
    stepNo,             \* [rank] number of completed timeAdvance calls
    V,                  \* [rank] vfield: record of the arrays Vx, Vy, Vz
    P,                  \* [rank] sfield pressure
    T,                  \* [rank] sfield temperature
    nseRHS,             \* [rank] static plainvf of timeAdvance
    tmpRHS,             \* [rank] static plainsf of timeAdvance
    pressureGradient,   \* [rank] plainvf scratch
    Pp,                 \* [rank] pressure correction
    mgRHS,              \* [rank] right-hand side of the Poisson solve
    tempV,              \* [rank] the static scratch arrays tempVx, tempVy, tempVz, tempT
    solving,            \* [rank] the Jacobi solve the rank is in: "Vx", "Vy", "Vz", "T" or "none"
    iterCount,          \* [rank] iterCount of the running solve
    sweeps,             \* [rank] sweeps performed in the running solve
    locMax,             \* [rank]
    gloMax,             \* [rank]
    maxIterations,      \* [rank]
    sgsLES,             \* [rank] the LES model pointer: "unset" or "spiral"
    subgridEnergy,      \* [rank] tsWriter.subgridEnergy
    sgCalls,            \* [rank] calls of computeSG in the current timeAdvance: sequence of arities
    stdout,             \* lines written to standard output: <<rank, text>>
    exitCode,           \* [rank] exit status of the process, -1 while it runs
    entry,              \* [rank] V, P, T as they were at entry of the current timeAdvance
    lastWrite,          \* [rank] for V, P, T: the statement that wrote the field last
    fpc,                \* position of the program that exercises one sfield f and one plainvf
    fF,                 \* [rank] f.F.F, the array of the sfield f
    fPv,                \* [rank] the arrays Vx, Vy, Vz of the plainvf
    wallSlices,         \* [rank] f.F.fWalls: wall number -> set of cells
    fCalls,             \* [rank] the calls made by the latest f.imposeBCs(), in order
    fLog,               \* the operations applied to f, in order
    fSnap,              \* [rank] f.F.F as it was before the latest operation
    fMaxRet,            \* [rank] the values f.F.fieldMax() has returned, in order
    acc,                \* accesses made by the threads of rank 0 in the running parallel loop
    atFork              \* the field and the scratch array of rank 0 when the loop was entered

vars == <<inputParams, setup, dt, solTime, pc, stepNo, V, P, T, nseRHS, tmpRHS,
          pressureGradient, Pp, mgRHS, tempV, solving, iterCount, sweeps, locMax, gloMax,
          maxIterations, sgsLES, subgridEnergy, sgCalls, stdout, exitCode, entry, lastWrite,
          fpc, fF, fPv, wallSlices, fCalls, fLog, fSnap, fMaxRet, acc, atFork>>

Comps == {"Vx", "Vy", "Vz"}

(***************************************************************************)
(* Halo exchange (mpidata::syncData): every pad layer on a face that has   *)
(* a neighbour receives the neighbour's outermost core layers.  Ranks are  *)
(* neighbours along x; along a periodic y or z a rank is its own           *)
(* neighbour.                                                              *)
(***************************************************************************)
NoRank == -1

\* variant: the rank topology does not wrap around a periodic axis
leftRankNoWrap(r) == IF r > 0 THEN r - 1 ELSE NoRank

leftRank(r) == IF r > 0 THEN r - 1 ELSE IF inputParams.xPer THEN NRanks - 1 ELSE NoRank

rightRank(r) == IF r < NRanks - 1 THEN r + 1 ELSE IF inputParams.xPer THEN 0 ELSE NoRank

InCore(c, d) == c[d] \in coreDomain[d]

\* the array of rank r after the exchange, Fr being the arrays of all ranks before it
syncData(Fr, r) ==
    [c \in Cells |->
        IF InCore(c, 2) /\ InCore(c, 3) /\ c[1] < 0 /\ leftRank(r) # NoRank
            THEN Fr[leftRank(r)][<<c[1] + coreSize[1], c[2], c[3]>>]
        ELSE IF InCore(c, 2) /\ InCore(c, 3) /\ c[1] >= coreSize[1] /\ rightRank(r) # NoRank
            THEN Fr[rightRank(r)][<<c[1] - coreSize[1], c[2], c[3]>>]
        ELSE IF InCore(c, 1) /\ InCore(c, 3) /\ c[2] < 0 /\ inputParams.yPer
            THEN Fr[r][<<c[1], c[2] + coreSize[2], c[3]>>]
        ELSE IF InCore(c, 1) /\ InCore(c, 3) /\ c[2] >= coreSize[2] /\ inputParams.yPer
            THEN Fr[r][<<c[1], c[2] - coreSize[2], c[3]>>]
        ELSE IF InCore(c, 1) /\ InCore(c, 2) /\ c[3] < 0 /\ inputParams.zPer
            THEN Fr[r][<<c[1], c[2], c[3] + coreSize[3]>>]
        ELSE IF InCore(c, 1) /\ InCore(c, 2) /\ c[3] >= coreSize[3] /\ inputParams.zPer
            THEN Fr[r][<<c[1], c[2], c[3] - coreSize[3]>>]
        ELSE Fr[r][c]]

(***************************************************************************)
(* Wall slices (field::setWallSlices) and the boundary-condition objects.  *)
(* Walls: 0 left, 1 right, 2 front, 3 back, 4 bottom, 5 top.  The domain   *)
(* is decomposed along x only, so that every rank touches the front, back, *)
(* bottom and top of the domain; imposeBCs leaves out the left/right and   *)
(* front/back objects of a periodic axis and always calls the top and      *)
(* bottom objects.                                                         *)
(***************************************************************************)
wallAxis(w) == (w \div 2) + 1

\* variant: the slices lie on the outermost layers of the core
wallIndexInCore(w) == IF w % 2 = 0 THEN 0 ELSE coreSize[wallAxis(w)] - 1

wallIndex(w) == IF w % 2 = 0 THEN 0 - 1 ELSE coreSize[wallAxis(w)]

fWalls(w) == {c \in Cells : c[wallAxis(w)] = wallIndex(w)}

\* the cell of the adjacent interior layer
Inward(c, w) == [c EXCEPT ![wallAxis(w)] = IF w % 2 = 0 THEN c[wallAxis(w)] + 1 ELSE c[wallAxis(w)] - 1]

\* the face is a boundary of the whole domain for rank r
physicalFace(r, w) ==
    CASE w = 0 -> r = 0 /\ ~inputParams.xPer
      [] w = 1 -> r = NRanks - 1 /\ ~inputParams.xPer
      [] w \in {2, 3} -> ~inputParams.yPer
      [] OTHER -> TRUE

\* variant: the top and bottom walls carry Dirichlet or Neumann objects in a domain
\* periodic along z as well
bcOfWalledZ(name, w) ==
    IF name \in {"P", "Pp"} THEN [kind |-> "neumann", value |-> 0]
    ELSE IF name = "Vx" /\ w = 5 THEN [kind |-> setup.wallKind, value |-> setup.wallValue]
    ELSE [kind |-> setup.wallKind, value |-> 0]

\* the BC object of a wall of a field: pressure-like fields are Neumann, and the top
\* and bottom walls of a domain periodic along z carry periodic BC objects, whose
\* imposeBC writes nothing: the halo exchange fills the pads of a periodic face
bcOf(name, w) ==
    IF w \in {4, 5} /\ inputParams.zPer THEN [kind |-> "periodic", value |-> 0]
    ELSE IF name \in {"P", "Pp"} THEN [kind |-> "neumann", value |-> 0]
    ELSE IF name = "Vx" /\ w = 5 THEN [kind |-> setup.wallKind, value |-> setup.wallValue]
    ELSE [kind |-> setup.wallKind, value |-> 0]

\* boundary::imposeBC of wall w on array A of rank r
imposeBC(A, r, name, w) ==
    IF ~physicalFace(r, w) THEN A
    ELSE IF bcOf(name, w).kind = "dirichlet"
        THEN [c \in Cells |-> IF c \in fWalls(w) THEN bcOf(name, w).value ELSE A[c]]
    ELSE IF bcOf(name, w).kind = "periodic" THEN A
    ELSE [c \in Cells |-> IF c \in fWalls(w) THEN A[Inward(c, w)] ELSE A[c]]

\* variant: the bottom wall is forgotten
imposeWallsNoBottom(A, r, name) ==
    LET a1 == IF ~inputParams.xPer THEN imposeBC(imposeBC(A, r, name, 0), r, name, 1) ELSE A
        a2 == IF ~inputParams.yPer THEN imposeBC(imposeBC(a1, r, name, 2), r, name, 3) ELSE a1
    IN  imposeBC(a2, r, name, 5)

\* the face BCs of sfield::imposeBCs, after its syncData
imposeWalls(A, r, name) ==
    LET a1 == IF ~inputParams.xPer THEN imposeBC(imposeBC(A, r, name, 0), r, name, 1) ELSE A
        a2 == IF ~inputParams.yPer THEN imposeBC(imposeBC(a1, r, name, 2), r, name, 3) ELSE a1
    IN  imposeBC(imposeBC(a2, r, name, 5), r, name, 4)

(***************************************************************************)
(* Finite differences in computational coordinates (derivative class).     *)
(***************************************************************************)
d1x(A, c) == RMul(RMul(RSub(A[Xp(c)], A[Xm(c)]), i2hx), xi_x(c[1]))

d1y(A, c) == RMul(RMul(RSub(A[Yp(c)], A[Ym(c)]), i2hy), et_y(c[2]))

d1z(A, c) == RMul(RMul(RSub(A[Zp(c)], A[Zm(c)]), i2hz), zt_z(c[3]))

d2(A, c, p, m, m2, mm, ih2, i2h) ==
    RAdd(RMul(RMul(m2, RAdd(RSub(A[p], RMul(Two, A[c])), A[m])), ih2),
         RMul(RMul(mm, RSub(A[p], A[m])), i2h))

d2xx(A, c) == d2(A, c, Xp(c), Xm(c), xix2(c[1]), xixx(c[1]), ihx2, i2hx)

d2yy(A, c) == d2(A, c, Yp(c), Ym(c), ety2(c[2]), etyy(c[2]), ihy2, i2hy)

d2zz(A, c) == d2(A, c, Zp(c), Zm(c), ztz2(c[3]), ztzz(c[3]), ihz2, i2hz)

\* variant: the diffusion term replaces the core of H
computeDiffOverwrite(F, H) ==
    [c \in Cells |->
        IF c \in core THEN RAdd(RAdd(d2xx(F, c), d2yy(F, c)), d2zz(F, c)) ELSE H[c]]

\* sfield::computeDiff: H(core) += d2xx; += d2yy; += d2zz
computeDiff(F, H) ==
    [c \in Cells |-> IF c \in core
        THEN RAdd(RAdd(RAdd(H[c], d2xx(F, c)), d2yy(F, c)), d2zz(F, c)) ELSE H[c]]

\* sfield::computeNLin: H(core) -= Vx*d1x; -= Vy*d1y; -= Vz*d1z
computeNLin(F, Vr, H) ==
    [c \in Cells |-> IF c \in core
        THEN RSub(RSub(RSub(H[c], RMul(Vr.Vx[c], d1x(F, c))),
                       RMul(Vr.Vy[c], d1y(F, c))), RMul(Vr.Vz[c], d1z(F, c)))
        ELSE H[c]]

\* variant: the derivatives are added to the components instead of replacing them
gradientAccumulate(F, gradF) ==
    [Vx |-> [c \in Cells |-> IF c \in core THEN RAdd(gradF.Vx[c], d1x(F, c)) ELSE gradF.Vx[c]],
     Vy |-> [c \in Cells |-> IF c \in core THEN RAdd(gradF.Vy[c], d1y(F, c)) ELSE gradF.Vy[c]],
     Vz |-> [c \in Cells |-> IF c \in core THEN RAdd(gradF.Vz[c], d1z(F, c)) ELSE gradF.Vz[c]]]

\* sfield::gradient: the core of each component of gradF is overwritten
gradient(F, gradF) ==
    [Vx |-> [c \in Cells |-> IF c \in core THEN d1x(F, c) ELSE gradF.Vx[c]],
     Vy |-> [c \in Cells |-> IF c \in core THEN d1y(F, c) ELSE gradF.Vy[c]],
     Vz |-> [c \in Cells |-> IF c \in core THEN d1z(F, c) ELSE gradF.Vz[c]]]

\* vfield::divergence
divergence(Vr, H) ==
    [c \in Cells |-> IF c \in core
        THEN RAdd(RAdd(d1x(Vr.Vx, c), d1y(Vr.Vy, c)), d1z(Vr.Vz, c)) ELSE H[c]]

\* plainvf arithmetic (plainvf.cc)
vfAdd(A, B) == [n \in Comps |-> ArrAdd(A[n], B[n])]

vfSub(A, B) == [n \in Comps |-> ArrSub(A[n], B[n])]

vfScale(A, k) == [n \in Comps |-> ArrScale(A[n], k)]

vfFill(a) == [n \in Comps |-> Fill(a)]

(***************************************************************************)
(* The Jacobi sweep of solveVx, solveVy, solveVz and solveT.               *)
(***************************************************************************)
\* variant: loops that run over the whole array
sweepRangeFull == Cells

\* the loop range xSt..xEn, ySt..yEn, zSt..zEn: the core
sweepRange == core

\* variant: the factor 1/2 of the neighbour sum is missing
jacobiCellNoHalf(F, rhs, alpha, c) ==
    LET S == RAdd(RAdd(RAdd(RAdd(RAdd(
                 RMul(RMul(ihx2, xix2(c[1])), RAdd(F[Xp(c)], F[Xm(c)])),
                 RMul(RMul(i2hx, xixx(c[1])), RSub(F[Xp(c)], F[Xm(c)]))),
                 RMul(RMul(ihy2, ety2(c[2])), RAdd(F[Yp(c)], F[Ym(c)]))),
                 RMul(RMul(i2hy, etyy(c[2])), RSub(F[Yp(c)], F[Ym(c)]))),
                 RMul(RMul(ihz2, ztz2(c[3])), RAdd(F[Zp(c)], F[Zm(c)]))),
                 RMul(RMul(i2hz, ztzz(c[3])), RSub(F[Zp(c)], F[Zm(c)])))
        diag == RAdd(RAdd(RMul(ihx2, xix2(c[1])), RMul(ihy2, ety2(c[2]))),
                     RMul(ihz2, ztz2(c[3])))
    IN  RDiv(RAdd(RMul(RMul(S, dt), alpha), rhs[c]),
             RAdd(One, RMul(RMul(dt, alpha), diag)))

\* the candidate of one cell (eulerCN_d3.cc:300-307), alpha being nu or kappa
jacobiCell(F, rhs, alpha, c) ==
    LET S == RAdd(RAdd(RAdd(RAdd(RAdd(
                 RMul(RMul(ihx2, xix2(c[1])), RAdd(F[Xp(c)], F[Xm(c)])),
                 RMul(RMul(i2hx, xixx(c[1])), RSub(F[Xp(c)], F[Xm(c)]))),
                 RMul(RMul(ihy2, ety2(c[2])), RAdd(F[Yp(c)], F[Ym(c)]))),
                 RMul(RMul(i2hy, etyy(c[2])), RSub(F[Yp(c)], F[Ym(c)]))),
                 RMul(RMul(ihz2, ztz2(c[3])), RAdd(F[Zp(c)], F[Zm(c)]))),
                 RMul(RMul(i2hz, ztzz(c[3])), RSub(F[Zp(c)], F[Zm(c)])))
        diag == RAdd(RAdd(RMul(ihx2, xix2(c[1])), RMul(ihy2, ety2(c[2]))),
                     RMul(ihz2, ztz2(c[3])))
    IN  RDiv(RAdd(RDiv(RMul(RMul(S, dt), alpha), Two), rhs[c]),
             RAdd(One, RMul(RMul(dt, alpha), diag)))

\* the update loop: the scratch array after it
jacobiUpdate(F, rhs, alpha, temp) ==
    [c \in Cells |-> IF c \in sweepRange THEN jacobiCell(F, rhs, alpha, c) ELSE temp[c]]

\* the residual loop (eulerCN_d3.cc:317-329)
residualCell(F, alpha, c) ==
    RSub(F[c], RMul(RMul(RMul(Half, dt), alpha),
                    RAdd(RAdd(d2xx(F, c), d2yy(F, c)), d2zz(F, c))))

\* the scratch array after the residual loop and tempVx(core) = abs(tempVx(core) - rhs(core))
residual(F, rhs, alpha, temp) ==
    LET t1 == [c \in Cells |-> IF c \in sweepRange THEN residualCell(F, alpha, c) ELSE temp[c]]
    IN  [c \in Cells |-> IF c \in core THEN RAbs(RSub(t1[c], rhs[c])) ELSE t1[c]]

\* the diffusion coefficient of a solve
alphaOf(s) == IF s = "T" THEN kappa ELSE nu

\* the solve that follows solve s in timeAdvance, "none" after the last one
nextSolve(s) ==
    CASE s = "Vx" -> "Vy"
      [] s = "Vy" -> "Vz"
      [] s = "Vz" -> IF setup.scalar THEN "T" ELSE "none"
      [] OTHER -> "none"

\* int(pow(log(n), 3)) for the core sizes of the model (eulerCN_d3.cc:68)
cubedLog == <<0, 0, 1, 2, 4, 5, 7, 8, 10, 12, 13, 15, 16, 18, 19, 21, 22, 24, 25, 26, 28, 29, 30, 32>>

maxIterationsOf(size) == cubedLog[size[1] * size[2] * size[3]]

(***************************************************************************)
(* Collaborators of the time step.                                         *)
(***************************************************************************)
\* force::addForcing: a constant body force along z
addForcing(H) == [H EXCEPT !.Vz = [c \in Cells |-> IF c \in core THEN RAdd(H.Vz[c], setup.forcing) ELSE H.Vz[c]]]

\* the scalar forcing T.tForcing->addForcing: none
addForcingT(H) == H

\* spiral::computeSG: the sub-grid term added to the core of an accumulator
sgsTerm == Half

addSG(A) == [c \in Cells |-> IF c \in core THEN RAdd(A[c], sgsTerm) ELSE A[c]]

\* the sub-grid kinetic energy computeSG returns
sgsKE == One

\* multigrid::mgSolve: a pressure correction whose Laplacian approximates r,
\* zero for r = 0, with homogeneous Neumann walls
mgSolve(rhs, r) ==
    LET diag == RAdd(RAdd(RMul(ihx2, One), RMul(ihy2, One)), RMul(ihz2, One))
        sol == [c \in Cells |-> IF c \in core THEN RDiv(RSub(0, rhs[c]), RMul(Two, diag)) ELSE 0]
    IN  imposeWalls(sol, r, "Pp")

(***************************************************************************)
(* The runs explored: what the caller hands to the solver.                 *)
(***************************************************************************)
MaxSteps == 2

tolLow == 2

tolHigh == 4 * Scale

\* a value left in memory that was never initialised
junk == 3 * Scale

Base ==
    [lesModel |-> 0, cnTolerance |-> tolHigh, tStp |-> One, xPer |-> FALSE, yPer |-> FALSE,
     zPer |-> FALSE, dt |-> One, sTime |-> 0, scalar |-> FALSE, TEST_POISSON |-> FALSE,
     wallKind |-> "dirichlet", wallValue |-> 0, forcing |-> 0, init |-> "shear", garbage |-> 0]

\* convergence of the Jacobi solves
JacobiRuns ==
    {[Base EXCEPT !.cnTolerance = tol, !.init = i, !.xPer = xp, !.yPer = yp, !.scalar = sc] :
        tol \in {0, tolLow, tolHigh}, i \in {"zero", "shear"}, xp \in BOOLEAN, yp \in BOOLEAN,
        sc \in BOOLEAN}

\* the LES switch, the step size and the start time
LesRuns ==
    {[Base EXCEPT !.lesModel = m, !.dt = d, !.sTime = t, !.scalar = sc, !.garbage = g] :
        m \in 0 .. 3, d \in {One, Two}, t \in {0, 6 * One}, sc \in BOOLEAN, g \in {0, junk}}

\* degenerate step sizes
StepRuns ==
    {[Base EXCEPT !.dt = d, !.init = i, !.scalar = sc, !.TEST_POISSON = tp] :
        d \in {0, 0 - One}, i \in {"zero", "shear"}, sc \in BOOLEAN, tp \in BOOLEAN}

\* the fluid at rest
RestRuns ==
    {[Base EXCEPT !.init = "zero", !.forcing = f, !.wallKind = k, !.wallValue = w,
                  !.garbage = g, !.yPer = yp, !.xPer = yp] :
        f \in {0, One}, k \in {"dirichlet", "neumann"}, w \in {0, One}, g \in {0, junk},
        yp \in BOOLEAN}

\* the build that tests the Poisson solver
PoissonRuns ==
    {[Base EXCEPT !.TEST_POISSON = TRUE, !.init = i, !.dt = d] :
        i \in {"zero", "shear"}, d \in {One, Two}}

Runs == JacobiRuns \cup LesRuns \cup StepRuns \cup RestRuns \cup PoissonRuns

\* initial condition of a core cell
initCore(name, i, r, c) ==
    IF i = "zero" THEN 0
    ELSE CASE name = "Vx" -> IF (c[1] + r) % 2 = 0 THEN One ELSE 0
           [] name = "Vy" -> 0
           [] name = "Vz" -> Half
           [] name = "P" -> Half * c[1]
           [] OTHER -> IF r = 0 THEN One ELSE 0

\* the arrays of all ranks after syncData and the face BCs
settle(Fr, name) == [r \in Ranks |-> imposeWalls(syncData(Fr, r), r, name)]

initField(name, i) ==
    settle([r \in Ranks |-> [c \in Cells |-> IF c \in core THEN initCore(name, i, r, c) ELSE 0]],
           name)

\* the state of a run before the time-step object is constructed
RunInit(run) ==
        /\ inputParams = [lesModel |-> run.lesModel, cnTolerance |-> run.cnTolerance,
                          tStp |-> run.tStp, xPer |-> run.xPer, yPer |-> run.yPer,
                          zPer |-> run.zPer]
        /\ setup = [scalar |-> run.scalar, TEST_POISSON |-> run.TEST_POISSON,
                    wallKind |-> run.wallKind, wallValue |-> run.wallValue,
                    forcing |-> run.forcing, init |-> run.init]
        /\ dt = run.dt
        /\ solTime = [r \in Ranks |-> run.sTime]
        /\ pc = [r \in Ranks |-> "new"]
        /\ stepNo = [r \in Ranks |-> 0]
        /\ V = [r \in Ranks |-> [n \in Comps |-> initField(n, run.init)[r]]]
        /\ P = initField("P", run.init)
        /\ T = initField("T", run.init)
        /\ nseRHS = [r \in Ranks |-> vfFill(0)]
        /\ tmpRHS = [r \in Ranks |-> Fill(0)]
        /\ pressureGradient = [r \in Ranks |-> vfFill(0)]
        /\ Pp = [r \in Ranks |-> Fill(0)]
        /\ mgRHS = [r \in Ranks |-> Fill(0)]
        /\ tempV = [r \in Ranks |-> [n \in Comps \cup {"T"} |-> Fill(run.garbage)]]
        /\ solving = [r \in Ranks |-> "none"]
        /\ iterCount = [r \in Ranks |-> 0]
        /\ sweeps = [r \in Ranks |-> 0]
        /\ locMax = [r \in Ranks |-> 0]
        /\ gloMax = [r \in Ranks |-> 0]
        /\ maxIterations = [r \in Ranks |-> 0]
        /\ sgsLES = [r \in Ranks |-> "unset"]
        /\ subgridEnergy = [r \in Ranks |-> run.garbage]
        /\ sgCalls = [r \in Ranks |-> <<>>]
        /\ stdout = <<>>
        /\ exitCode = [r \in Ranks |-> 0 - 1]
        /\ entry = [r \in Ranks |-> [V |-> V[r], P |-> P[r], T |-> T[r]]]
        /\ lastWrite = [r \in Ranks |-> [V |-> "imposeBCs", P |-> "imposeBCs", T |-> "imposeBCs"]]

\* no field f exists yet; g is what the memory f will occupy holds
NoField(g) ==
    /\ fpc = "none"
    /\ fF = [r \in Ranks |-> Fill(g)]
    /\ fPv = [r \in Ranks |-> vfFill(g)]
    /\ wallSlices = [r \in Ranks |-> [w \in 0 .. 5 |-> {}]]
    /\ fCalls = [r \in Ranks |-> <<>>]
    /\ fLog = <<>>
    /\ fSnap = [r \in Ranks |-> Fill(g)]
    /\ fMaxRet = [r \in Ranks |-> <<>>]

\* no thread-parallel loop is running
NoThreads == acc = {} /\ atFork = [F |-> Fill(0), temp |-> Fill(0)]

Init == \E run \in Runs : RunInit(run) /\ NoField(0) /\ NoThreads

cfgVars == <<inputParams, setup, dt>>

threadVars == <<acc, atFork>>

fieldVars == <<fpc, fF, fPv, wallSlices, fCalls, fLog, fSnap, fMaxRet>>

loopVars == <<solving, iterCount, sweeps, locMax, gloMax>>

scratchVars == <<nseRHS, tmpRHS, pressureGradient, Pp, mgRHS, tempV>>

(***************************************************************************)
(* eulerCN_d3::eulerCN_d3 (eulerCN_d3.cc:58-78).                           *)
(***************************************************************************)
\* variant: the constructor creates the LES model for mode 1 only
ConstructFirstModeOnly(r) ==
    /\ pc[r] = "new"
    /\ maxIterations' = [maxIterations EXCEPT ![r] = maxIterationsOf(coreSize)]
    /\ IF inputParams.lesModel = 1
          THEN /\ sgsLES' = [sgsLES EXCEPT ![r] = "spiral"]
               /\ stdout' = IF r = 0 THEN Append(stdout, <<r, "LES Switch is ON">>) ELSE stdout
          ELSE UNCHANGED <<sgsLES, stdout>>
    /\ pc' = [pc EXCEPT ![r] = "idle"]
    /\ UNCHANGED <<cfgVars, threadVars, fieldVars, loopVars, scratchVars, solTime, stepNo, V, P, T, subgridEnergy,
                   sgCalls, exitCode, entry, lastWrite>>

Construct(r) ==
    /\ pc[r] = "new"
    /\ maxIterations' = [maxIterations EXCEPT ![r] = maxIterationsOf(coreSize)]
    /\ IF inputParams.lesModel # 0
          THEN /\ sgsLES' = [sgsLES EXCEPT ![r] = "spiral"]
               /\ stdout' = IF r = 0 THEN Append(stdout, <<r, "LES Switch is ON">>) ELSE stdout
          ELSE UNCHANGED <<sgsLES, stdout>>
    /\ pc' = [pc EXCEPT ![r] = "idle"]
    /\ UNCHANGED <<cfgVars, threadVars, fieldVars, loopVars, scratchVars, solTime, stepNo, V, P, T, subgridEnergy,
                   sgCalls, exitCode, entry, lastWrite>>

(***************************************************************************)
(* timeAdvance up to the halo exchange of the right-hand sides             *)
(* (eulerCN_d3.cc:92-121 and 181-233).                                     *)
(***************************************************************************)
\* variant: the switch without the early skip
lesOnNoSkip(r) == inputParams.lesModel # 0

\* the LES switch of timeAdvance
lesOn(r) == inputParams.lesModel # 0 /\ RLess(RMul(5 * One, inputParams.tStp), solTime[r])

\* variant: the scalar overload takes mode 1 for the momentum+scalar closure
lesCallsSwapped(r) ==
    IF ~lesOn(r) THEN <<>>
    ELSE IF ~setup.scalar THEN <<2>>
    ELSE IF inputParams.lesModel = 1 THEN <<4>>
    ELSE IF inputParams.lesModel = 2 THEN <<2>>
    ELSE <<>>

\* the arities of the computeSG calls timeAdvance makes
lesCalls(r) ==
    IF ~lesOn(r) THEN <<>>
    ELSE IF ~setup.scalar THEN <<2>>
    ELSE IF inputParams.lesModel = 1 THEN <<2>>
    ELSE IF inputParams.lesModel = 2 THEN <<4>>
    ELSE <<>>

\* variant: the factor nu/2 is applied after the non-linear term has been subtracted
momentumTermsHalfAll(r, sg) ==
    LET n1 == [n \in Comps |-> computeDiff(V[r][n], Fill(0))]
        n2 == [n \in Comps |-> computeNLin(V[r][n], V[r], n1[n])]
        n3 == vfScale(n2, RDiv(nu, Two))
        n4 == addForcing(n3)
        n5 == IF sg THEN [n \in Comps |-> addSG(n4[n])] ELSE n4
        pg == gradient(P[r], vfFill(0))
        n6 == vfSub(n5, pg)
    IN  vfAdd(vfScale(n6, dt), V[r])

\* nseRHS before its halo exchange; sg: computeSG has added the sub-grid term
momentumTerms(r, sg) ==
    LET n1 == [n \in Comps |-> computeDiff(V[r][n], Fill(0))]
        n2 == vfScale(n1, RDiv(nu, Two))
        n3 == [n \in Comps |-> computeNLin(V[r][n], V[r], n2[n])]
        n4 == addForcing(n3)
        n5 == IF sg THEN [n \in Comps |-> addSG(n4[n])] ELSE n4
        pg == gradient(P[r], vfFill(0))
        n6 == vfSub(n5, pg)
    IN  vfAdd(vfScale(n6, dt), V[r])

momentumRHS(r) == momentumTerms(r, lesCalls(r) # <<>>)

\* tmpRHS before its halo exchange
scalarTerms(r, sg) ==
    LET t1 == computeDiff(T[r], Fill(0))
        t2 == ArrScale(t1, RDiv(kappa, Two))
        t3 == addForcingT(computeNLin(T[r], V[r], t2))
        t4 == IF sg THEN addSG(t3) ELSE t3
    IN  ArrAdd(ArrScale(t4, dt), T[r])

scalarRHS(r) == scalarTerms(r, lesCalls(r) = <<4>>)

fieldsFinite(r) ==
    /\ \A n \in Comps : ArrFinite(V[r][n])
    /\ ArrFinite(P[r])
    /\ ArrFinite(T[r])

computeRHS(r) ==
    /\ pc[r] = "idle"
    /\ stepNo[r] < MaxSteps
    /\ fieldsFinite(r)
    /\ entry' = [entry EXCEPT ![r] = [V |-> V[r], P |-> P[r], T |-> T[r]]]
    /\ nseRHS' = [nseRHS EXCEPT ![r] = momentumRHS(r)]
    /\ tmpRHS' = IF setup.scalar THEN [tmpRHS EXCEPT ![r] = scalarRHS(r)] ELSE tmpRHS
    /\ pressureGradient' = [pressureGradient EXCEPT ![r] = gradient(P[r], vfFill(0))]
    /\ sgCalls' = [sgCalls EXCEPT ![r] = lesCalls(r)]
    /\ subgridEnergy' =
          IF ~lesOn(r) THEN subgridEnergy
          ELSE [subgridEnergy EXCEPT ![r] = IF lesCalls(r) # <<>> THEN sgsKE ELSE 0]
    /\ pc' = [pc EXCEPT ![r] = "syncRHS"]
    /\ UNCHANGED <<cfgVars, threadVars, fieldVars, loopVars, solTime, stepNo, V, P, T, Pp, mgRHS, tempV,
                   maxIterations, sgsLES, stdout, exitCode, lastWrite>>

\* every rank is at the same collective operation
allAt(p) == \A r \in Ranks : pc[r] = p

\* nseRHS.syncData(); tmpRHS.syncData(); then solveVx begins
syncRHS ==
    /\ allAt("syncRHS")
    /\ nseRHS' = [r \in Ranks |->
                    [n \in Comps |-> syncData([q \in Ranks |-> nseRHS[q][n]], r)]]
    /\ tmpRHS' = IF setup.scalar THEN [r \in Ranks |-> syncData(tmpRHS, r)] ELSE tmpRHS
    /\ solving' = [r \in Ranks |-> "Vx"]
    /\ iterCount' = [r \in Ranks |-> 0]
    /\ sweeps' = [r \in Ranks |-> 0]
    /\ locMax' = [r \in Ranks |-> 0]
    /\ gloMax' = [r \in Ranks |-> 0]
    /\ pc' = [r \in Ranks |-> "sweep"]
    /\ UNCHANGED <<cfgVars, threadVars, fieldVars, solTime, stepNo, V, P, T, pressureGradient, Pp, mgRHS, tempV,
                   maxIterations, sgsLES, subgridEnergy, sgCalls, stdout, exitCode, entry,
                   lastWrite>>

(***************************************************************************)
(* The Jacobi solves (eulerCN_d3.cc:289-560).                              *)
(***************************************************************************)
\* the field and the right-hand side of the solve a rank is in
fieldOf(r) == IF solving[r] = "T" THEN T[r] ELSE V[r][solving[r]]

rhsOf(r) == IF solving[r] = "T" THEN tmpRHS[r] ELSE nseRHS[r][solving[r]]

\* variant: the copy goes to V.Vx in every solve
sweepIntoVx(r) ==
    /\ pc[r] = "sweep"
    /\ LET s == solving[r]
           t == jacobiUpdate(fieldOf(r), rhsOf(r), alphaOf(s), tempV[r][s])
       IN  /\ tempV' = [tempV EXCEPT ![r][s] = t]
           /\ IF s = "T"
                 THEN /\ T' = [T EXCEPT ![r] = t]
                      /\ lastWrite' = [lastWrite EXCEPT ![r].T = "copy"]
                      /\ V' = V
                 ELSE /\ V' = [V EXCEPT ![r].Vx = t]
                      /\ lastWrite' = [lastWrite EXCEPT ![r].V = "copy"]
                      /\ T' = T
    /\ sweeps' = [sweeps EXCEPT ![r] = sweeps[r] + 1]
    /\ pc' = [pc EXCEPT ![r] = "bcSync"]
    /\ UNCHANGED <<cfgVars, threadVars, fieldVars, solTime, stepNo, P, nseRHS, tmpRHS, pressureGradient, Pp, mgRHS,
                   solving, iterCount, locMax, gloMax, maxIterations, sgsLES, subgridEnergy,
                   sgCalls, stdout, exitCode, entry>>

\* the update loop and V.Vx.F = tempVx
sweep(r) ==
    /\ pc[r] = "sweep"
    /\ LET s == solving[r]
           t == jacobiUpdate(fieldOf(r), rhsOf(r), alphaOf(s), tempV[r][s])
       IN  /\ tempV' = [tempV EXCEPT ![r][s] = t]
           /\ IF s = "T"
                 THEN /\ T' = [T EXCEPT ![r] = t]
                      /\ lastWrite' = [lastWrite EXCEPT ![r].T = "copy"]
                      /\ V' = V
                 ELSE /\ V' = [V EXCEPT ![r][s] = t]
                      /\ lastWrite' = [lastWrite EXCEPT ![r].V = "copy"]
                      /\ T' = T
    /\ sweeps' = [sweeps EXCEPT ![r] = sweeps[r] + 1]
    /\ pc' = [pc EXCEPT ![r] = "bcSync"]
    /\ UNCHANGED <<cfgVars, threadVars, fieldVars, solTime, stepNo, P, nseRHS, tmpRHS, pressureGradient, Pp, mgRHS,
                   solving, iterCount, locMax, gloMax, maxIterations, sgsLES, subgridEnergy,
                   sgCalls, stdout, exitCode, entry>>

\* the ranks are in the same sweep of the same solve
sameSweep == \A r, q \in Ranks : solving[r] = solving[q] /\ sweeps[r] = sweeps[q]

\* the halo exchange that opens imposeVxBC, imposeVyBC, imposeVzBC and T.imposeBCs
bcSync ==
    /\ allAt("bcSync")
    /\ sameSweep
    /\ LET s == solving[0]
       IN  IF s = "T"
             THEN /\ T' = [r \in Ranks |-> syncData(T, r)]
                  /\ V' = V
             ELSE /\ V' = [r \in Ranks |->
                            [V[r] EXCEPT ![s] = syncData([q \in Ranks |-> V[q][s]], r)]]
                  /\ T' = T
    /\ pc' = [r \in Ranks |-> "bcWalls"]
    /\ UNCHANGED <<cfgVars, threadVars, fieldVars, loopVars, scratchVars, solTime, stepNo, P, maxIterations, sgsLES,
                   subgridEnergy, sgCalls, stdout, exitCode, entry, lastWrite>>

\* the face BCs of the field, the residual loop and locMax
residualStep(r) ==
    /\ pc[r] = "bcWalls"
    /\ LET s == solving[r]
           f == imposeWalls(fieldOf(r), r, s)
           t == residual(f, rhsOf(r), alphaOf(s), tempV[r][s])
       IN  /\ IF s = "T"
                 THEN /\ T' = [T EXCEPT ![r] = f]
                      /\ lastWrite' = [lastWrite EXCEPT ![r].T = "imposeBCs"]
                      /\ V' = V
                 ELSE /\ V' = [V EXCEPT ![r][s] = f]
                      /\ lastWrite' = [lastWrite EXCEPT ![r].V = "imposeBC"]
                      /\ T' = T
           /\ tempV' = [tempV EXCEPT ![r][s] = t]
           /\ locMax' = [locMax EXCEPT ![r] = MaxOver(t, core)]
    /\ pc' = [pc EXCEPT ![r] = "reduce"]
    /\ UNCHANGED <<cfgVars, threadVars, fieldVars, solTime, stepNo, P, nseRHS, tmpRHS, pressureGradient, Pp, mgRHS,
                   solving, iterCount, sweeps, gloMax, maxIterations, sgsLES, subgridEnergy,
                   sgCalls, stdout, exitCode, entry>>

RECURSIVE maxOfRanks(_)
maxOfRanks(S) ==
    LET r == CHOOSE x \in S : TRUE
    IN  IF S = {r} THEN locMax[r] ELSE RMax(locMax[r], maxOfRanks(S \ {r}))

\* MPI_Allreduce(&locMax, &gloMax, 1, MPI_FP_REAL, MPI_MAX, MPI_COMM_WORLD)
allReduce ==
    /\ allAt("reduce")
    /\ sameSweep
    /\ gloMax' = [r \in Ranks |-> maxOfRanks(Ranks)]
    /\ pc' = [r \in Ranks |-> "test"]
    /\ UNCHANGED <<cfgVars, threadVars, fieldVars, scratchVars, solTime, stepNo, V, P, T, solving, iterCount, sweeps,
                   locMax, maxIterations, sgsLES, subgridEnergy, sgCalls, stdout, exitCode,
                   entry, lastWrite>>

\* variant: the test admits a residual equal to the tolerance
convergedOrEqual(r) == gloMax[r] # NaN /\ gloMax[r] <= inputParams.cnTolerance

\* if (gloMax < mesh.inputParams.cnTolerance) break;
converged(r) == RLess(gloMax[r], inputParams.cnTolerance)

\* variant: a cap that differs from rank to rank
exhaustedOwnCap(r) == iterCount[r] + 1 > maxIterations[r] + r

\* if (iterCount > maxIterations), iterCount being already incremented
exhausted(r) == iterCount[r] + 1 > maxIterations[r]

\* variant: iterCount lives on from one solve to the next
testSharedBudget(r) ==
    /\ pc[r] = "test"
    /\ IF converged(r)
          THEN /\ sweeps' = [sweeps EXCEPT ![r] = 0]
               /\ locMax' = [locMax EXCEPT ![r] = 0]
               /\ gloMax' = [gloMax EXCEPT ![r] = 0]
               /\ solving' = [solving EXCEPT ![r] = nextSolve(solving[r])]
               /\ pc' = [pc EXCEPT ![r] = IF nextSolve(solving[r]) = "none" THEN "poisson" ELSE "sweep"]
               /\ UNCHANGED iterCount
          ELSE /\ iterCount' = [iterCount EXCEPT ![r] = iterCount[r] + 1]
               /\ pc' = [pc EXCEPT ![r] = IF exhausted(r) THEN "abort" ELSE "sweep"]
               /\ UNCHANGED <<solving, sweeps, locMax, gloMax>>
    /\ UNCHANGED <<cfgVars, threadVars, fieldVars, scratchVars, solTime, stepNo, V, P, T, maxIterations, sgsLES,
                   subgridEnergy, sgCalls, stdout, exitCode, entry, lastWrite>>

\* the convergence test and the iteration cap
test(r) ==
    /\ pc[r] = "test"
    /\ IF converged(r)
          THEN /\ iterCount' = [iterCount EXCEPT ![r] = 0]
               /\ sweeps' = [sweeps EXCEPT ![r] = 0]
               /\ locMax' = [locMax EXCEPT ![r] = 0]
               /\ gloMax' = [gloMax EXCEPT ![r] = 0]
               /\ solving' = [solving EXCEPT ![r] = nextSolve(solving[r])]
               /\ pc' = [pc EXCEPT ![r] = IF nextSolve(solving[r]) = "none" THEN "poisson" ELSE "sweep"]
          ELSE /\ iterCount' = [iterCount EXCEPT ![r] = iterCount[r] + 1]
               /\ pc' = [pc EXCEPT ![r] = IF exhausted(r) THEN "abort" ELSE "sweep"]
               /\ UNCHANGED <<solving, sweeps, locMax, gloMax>>
    /\ UNCHANGED <<cfgVars, threadVars, fieldVars, scratchVars, solTime, stepNo, V, P, T, maxIterations, sgsLES,
                   subgridEnergy, sgCalls, stdout, exitCode, entry, lastWrite>>

\* the status the failing solver hands to exit
abortStatus == 0

\* variant: every rank writes the error message
abortAllPrint(r) ==
    /\ pc[r] = "abort"
    /\ stdout' = Append(stdout, <<r, "ERROR: Jacobi iterations not converging. Aborting">>)
    /\ exitCode' = [exitCode EXCEPT ![r] = abortStatus]
    /\ pc' = [pc EXCEPT ![r] = "exited"]
    /\ UNCHANGED <<cfgVars, threadVars, fieldVars, loopVars, scratchVars, solTime, stepNo, V, P, T, maxIterations,
                   sgsLES, subgridEnergy, sgCalls, entry, lastWrite>>

\* the error message of rank 0, MPI_Finalize() and exit(0)
abort(r) ==
    /\ pc[r] = "abort"
    /\ stdout' = IF r = 0
                    THEN Append(stdout, <<r, "ERROR: Jacobi iterations not converging. Aborting">>)
                    ELSE stdout
    /\ exitCode' = [exitCode EXCEPT ![r] = abortStatus]
    /\ pc' = [pc EXCEPT ![r] = "exited"]
    /\ UNCHANGED <<cfgVars, threadVars, fieldVars, loopVars, scratchVars, solTime, stepNo, V, P, T, maxIterations,
                   sgsLES, subgridEnergy, sgCalls, entry, lastWrite>>

(***************************************************************************)
(* timeAdvance after the solves: the Poisson solve, the correction and the *)
(* boundary conditions (eulerCN_d3.cc:131-167 and 247-273).                *)
(***************************************************************************)
\* the build flag TEST_POISSON acts in the hydrodynamic overload only
testPoisson == setup.TEST_POISSON /\ ~setup.scalar

\* V.divergence(mgRHS); mgRHS *= 1.0/dt; and mgRHS.F = 1.0 in the test build
poissonRHS(r) ==
    LET m1 == divergence(V[r], mgRHS[r])
        m2 == ArrScale(m1, RDiv(One, dt))
    IN  IF testPoisson THEN Fill(One) ELSE m2

formRHS(r) ==
    /\ pc[r] = "poisson"
    /\ mgRHS' = [mgRHS EXCEPT ![r] = poissonRHS(r)]
    /\ pc' = [pc EXCEPT ![r] = "mgSolve"]
    /\ UNCHANGED <<cfgVars, threadVars, fieldVars, loopVars, solTime, stepNo, V, P, T, nseRHS, tmpRHS,
                   pressureGradient, Pp, tempV, maxIterations, sgsLES, subgridEnergy, sgCalls,
                   stdout, exitCode, entry, lastWrite>>

\* mgSolver.mgSolve(Pp, mgRHS)
solvePoisson ==
    /\ allAt("mgSolve")
    /\ Pp' = [r \in Ranks |-> mgSolve(mgRHS[r], r)]
    /\ pc' = [r \in Ranks |-> "syncPp"]
    /\ UNCHANGED <<cfgVars, threadVars, fieldVars, loopVars, solTime, stepNo, V, P, T, nseRHS, tmpRHS,
                   pressureGradient, mgRHS, tempV, maxIterations, sgsLES, subgridEnergy,
                   sgCalls, stdout, exitCode, entry, lastWrite>>

\* Pp.syncData()
syncPp ==
    /\ allAt("syncPp")
    /\ Pp' = [r \in Ranks |-> syncData(Pp, r)]
    /\ pc' = [r \in Ranks |-> "correct"]
    /\ UNCHANGED <<cfgVars, threadVars, fieldVars, loopVars, solTime, stepNo, V, P, T, nseRHS, tmpRHS,
                   pressureGradient, mgRHS, tempV, maxIterations, sgsLES, subgridEnergy,
                   sgCalls, stdout, exitCode, entry, lastWrite>>

\* variant: the pressure is not cleared in the test build
pressureUpdateKeep(r) == ArrAdd(P[r], Pp[r])

\* P.F = 0.0 in the test build; P += Pp
pressureUpdate(r) == ArrAdd(IF testPoisson THEN Fill(0) ELSE P[r], Pp[r])

correct(r) ==
    /\ pc[r] = "correct"
    /\ P' = [P EXCEPT ![r] = pressureUpdate(r)]
    /\ lastWrite' = [lastWrite EXCEPT ![r].P = "arithmetic"]
    /\ pc' = [pc EXCEPT ![r] = "project"]
    /\ UNCHANGED <<cfgVars, threadVars, fieldVars, loopVars, scratchVars, solTime, stepNo, V, T, maxIterations,
                   sgsLES, subgridEnergy, sgCalls, stdout, exitCode, entry>>

\* Pp.gradient(pressureGradient); pressureGradient *= dt; V -= pressureGradient
project(r) ==
    /\ pc[r] = "project"
    /\ LET pg == vfScale(gradient(Pp[r], pressureGradient[r]), dt)
       IN  /\ pressureGradient' = [pressureGradient EXCEPT ![r] = pg]
           /\ V' = [V EXCEPT ![r] = vfSub(V[r], pg)]
    /\ lastWrite' = [lastWrite EXCEPT ![r].V = "arithmetic"]
    /\ pc' = [pc EXCEPT ![r] = "syncV"]
    /\ UNCHANGED <<cfgVars, threadVars, fieldVars, loopVars, solTime, stepNo, P, T, nseRHS, tmpRHS, Pp, mgRHS, tempV,
                   maxIterations, sgsLES, subgridEnergy, sgCalls, stdout, exitCode, entry>>

\* the halo exchange of V.imposeBCs(), P.imposeBCs() and T.imposeBCs()
imposeBCsSync ==
    /\ \/ /\ allAt("syncV")
          /\ V' = [r \in Ranks |-> [n \in Comps |-> syncData([q \in Ranks |-> V[q][n]], r)]]
          /\ pc' = [r \in Ranks |-> "wallsV"]
          /\ UNCHANGED <<P, T>>
       \/ /\ allAt("syncP")
          /\ P' = [r \in Ranks |-> syncData(P, r)]
          /\ pc' = [r \in Ranks |-> "wallsP"]
          /\ UNCHANGED <<V, T>>
       \/ /\ allAt("syncT")
          /\ T' = [r \in Ranks |-> syncData(T, r)]
          /\ pc' = [r \in Ranks |-> "wallsT"]
          /\ UNCHANGED <<V, P>>
    /\ UNCHANGED <<cfgVars, threadVars, fieldVars, loopVars, scratchVars, solTime, stepNo, maxIterations, sgsLES,
                   subgridEnergy, sgCalls, stdout, exitCode, entry, lastWrite>>

\* the face BCs of V.imposeBCs(), P.imposeBCs() and T.imposeBCs()
imposeBCsWalls(r) ==
    /\ \/ /\ pc[r] = "wallsV"
          /\ V' = [V EXCEPT ![r] = [n \in Comps |-> imposeWalls(V[r][n], r, n)]]
          /\ lastWrite' = [lastWrite EXCEPT ![r].V = "imposeBCs"]
          /\ pc' = [pc EXCEPT ![r] = "syncP"]
          /\ UNCHANGED <<P, T>>
       \/ /\ pc[r] = "wallsP"
          /\ P' = [P EXCEPT ![r] = imposeWalls(P[r], r, "P")]
          /\ lastWrite' = [lastWrite EXCEPT ![r].P = "imposeBCs"]
          /\ pc' = [pc EXCEPT ![r] = IF setup.scalar THEN "syncT" ELSE "return"]
          /\ UNCHANGED <<V, T>>
       \/ /\ pc[r] = "wallsT"
          /\ T' = [T EXCEPT ![r] = imposeWalls(T[r], r, "T")]
          /\ lastWrite' = [lastWrite EXCEPT ![r].T = "imposeBCs"]
          /\ pc' = [pc EXCEPT ![r] = "return"]
          /\ UNCHANGED <<V, P>>
    /\ UNCHANGED <<cfgVars, threadVars, fieldVars, loopVars, scratchVars, solTime, stepNo, maxIterations, sgsLES,
                   subgridEnergy, sgCalls, stdout, exitCode, entry>>

\* timeAdvance returns; the caller advances the time by dt
return(r) ==
    /\ pc[r] = "return"
    /\ solTime' = [solTime EXCEPT ![r] = RAdd(solTime[r], dt)]
    /\ stepNo' = [stepNo EXCEPT ![r] = stepNo[r] + 1]
    /\ pc' = [pc EXCEPT ![r] = "idle"]
    /\ UNCHANGED <<cfgVars, threadVars, fieldVars, loopVars, scratchVars, V, P, T, maxIterations, sgsLES,
                   subgridEnergy, sgCalls, stdout, exitCode, entry, lastWrite>>

Next ==
    \/ \E r \in Ranks : Construct(r)
    \/ \E r \in Ranks : computeRHS(r)
    \/ syncRHS
    \/ \E r \in Ranks : sweep(r)
    \/ bcSync
    \/ \E r \in Ranks : residualStep(r)
    \/ allReduce
    \/ \E r \in Ranks : test(r)
    \/ \E r \in Ranks : abort(r)
    \/ \E r \in Ranks : formRHS(r)
    \/ solvePoisson
    \/ syncPp
    \/ \E r \in Ranks : correct(r)
    \/ \E r \in Ranks : project(r)
    \/ imposeBCsSync
    \/ \E r \in Ranks : imposeBCsWalls(r)
    \/ \E r \in Ranks : return(r)

Spec == Init /\ [][Next]_vars

(***************************************************************************)
(* The field layer on its own (field.cc, sfield.cc, plainvf.cc): a program *)
(* that constructs one sfield f and one plainvf and applies operations to  *)
(* f.  Every rank runs the same program; a statement that is local to a    *)
(* rank commutes with the local statements of the other ranks, so the      *)
(* ranks execute it in one step.                                           *)
(***************************************************************************)
\* the number of operations the program applies to f after constructing it
MaxOps == 4

\* the program assigns data to f in its first MaxFills operations
MaxFills == 1

\* f is given the boundary conditions of Vx
fName == "Vx"

\* the field the program adds to f: core values that differ from cell to cell and
\* from rank to rank, pads zero
sample(r) == [c \in Cells |-> IF c \in core THEN One * (c[1] + 1) + Half * r + 1 ELSE 0]

\* the scalars the program multiplies f with: negative, not an integer
Scalars == {0 - (One + Half)}

FieldRuns ==
    {[Base EXCEPT !.xPer = xp, !.yPer = yp, !.zPer = zp, !.wallKind = k, !.wallValue = One] :
        xp \in BOOLEAN, yp \in BOOLEAN, zp \in BOOLEAN, k \in {"dirichlet", "neumann"}}

FieldInit == \E run \in FieldRuns : RunInit(run) /\ NoField(junk) /\ NoThreads

stepVars == <<solTime, pc, stepNo, V, P, T, maxIterations, sgsLES, subgridEnergy, sgCalls,
              stdout, exitCode, entry, lastWrite>>

\* variant: the constructors resize the arrays and leave the memory as it is
fConstructNoClear ==
    /\ fpc = "none"
    /\ fSnap' = fF
    /\ wallSlices' = [r \in Ranks |-> [w \in 0 .. 5 |-> fWalls(w)]]
    /\ fpc' = "ready"
    /\ UNCHANGED <<cfgVars, threadVars, loopVars, scratchVars, stepVars, fF, fPv, fCalls, fLog, fMaxRet>>

\* field::field and plainvf::plainvf
fConstruct ==
    /\ fpc = "none"
    /\ fSnap' = fF
    /\ fF' = [r \in Ranks |-> Fill(0)]
    /\ fPv' = [r \in Ranks |-> vfFill(0)]
    /\ wallSlices' = [r \in Ranks |-> [w \in 0 .. 5 |-> fWalls(w)]]
    /\ fpc' = "ready"
    /\ UNCHANGED <<cfgVars, threadVars, loopVars, scratchVars, stepVars, fCalls, fLog, fMaxRet>>

\* the program may apply one more operation
mayApply == fpc = "ready" /\ Len(fLog) < MaxOps

\* the program may still assign data to f
mayFill == mayApply /\ Len(fLog) < MaxFills

\* f.F.F becomes G, by operation op with argument arg
applied(op, arg, G) ==
    /\ fSnap' = fF
    /\ fF' = G
    /\ fLog' = Append(fLog, [op |-> op, arg |-> arg])
    /\ UNCHANGED <<cfgVars, threadVars, loopVars, scratchVars, stepVars, fPv, wallSlices>>

\* field::operator = (real a)
fAssign(a) ==
    /\ mayFill
    /\ applied("=", a, [r \in Ranks |-> Fill(a)])
    /\ UNCHANGED <<fpc, fCalls, fMaxRet>>

\* field::operator += (field &a)
fAdd ==
    /\ mayFill
    /\ applied("+=", 0, [r \in Ranks |-> ArrAdd(fF[r], sample(r))])
    /\ UNCHANGED <<fpc, fCalls, fMaxRet>>

\* field::operator -= (real a)
fSub(a) ==
    /\ mayFill
    /\ applied("-=", a, [r \in Ranks |-> ArrSub(fF[r], Fill(a))])
    /\ UNCHANGED <<fpc, fCalls, fMaxRet>>

\* sfield::operator *= (real a)
fScale(a) ==
    /\ mayApply
    /\ applied("*=", a, [r \in Ranks |-> ArrScale(fF[r], a)])
    /\ UNCHANGED <<fpc, fCalls, fMaxRet>>

\* sfield::syncData
fSyncData ==
    /\ mayApply
    /\ applied("syncData", 0, [r \in Ranks |-> syncData(fF, r)])
    /\ UNCHANGED <<fpc, fCalls, fMaxRet>>

\* sfield::imposeBCs up to the face BCs: F.syncData()
fImposeSync ==
    /\ mayApply
    /\ applied("imposeBCs", 0, [r \in Ranks |-> syncData(fF, r)])
    /\ fCalls' = [r \in Ranks |-> <<"syncData">>]
    /\ fpc' = "walls"
    /\ UNCHANGED fMaxRet

\* the wall a BC object of a field writes
wallOf(t) ==
    CASE t = "tLft" -> 0 [] t = "tRgt" -> 1 [] t = "tFrn" -> 2 [] t = "tBak" -> 3
      [] t = "tBot" -> 4 [] OTHER -> 5

\* variant: the top and bottom objects are left out on a periodic axis like the others
wallCallsPeriodicZ ==
    (IF ~inputParams.xPer THEN <<"tLft", "tRgt">> ELSE <<>>)
        \o (IF ~inputParams.yPer THEN <<"tFrn", "tBak">> ELSE <<>>)
        \o (IF ~inputParams.zPer THEN <<"tTop", "tBot">> ELSE <<>>)

\* the imposeBC calls of sfield::imposeBCs, in order
wallCalls ==
    (IF ~inputParams.xPer THEN <<"tLft", "tRgt">> ELSE <<>>)
        \o (IF ~inputParams.yPer THEN <<"tFrn", "tBak">> ELSE <<>>) \o <<"tTop", "tBot">>

RECURSIVE applyCalls(_, _, _, _)
\* array A of rank r after the imposeBC calls of sequence ts
applyCalls(A, r, name, ts) ==
    IF ts = <<>> THEN A ELSE applyCalls(imposeBC(A, r, name, wallOf(Head(ts))), r, name, Tail(ts))

\* sfield::imposeBCs: the face BCs
fImposeWalls ==
    /\ fpc = "walls"
    /\ fF' = [r \in Ranks |-> applyCalls(fF[r], r, fName, wallCalls)]
    /\ fCalls' = [r \in Ranks |-> fCalls[r] \o wallCalls]
    /\ fpc' = "ready"
    /\ UNCHANGED <<cfgVars, threadVars, loopVars, scratchVars, stepVars, fPv, wallSlices, fLog, fSnap,
                   fMaxRet>>

RECURSIVE maxOfAll(_, _)
\* MPI_MAX over the ranks of set S of the values val[r]
maxOfAll(val, S) ==
    LET r == CHOOSE x \in S : TRUE
    IN  IF S = {r} THEN val[r] ELSE RMax(val[r], maxOfAll(val, S \ {r}))

\* variant: the maximum of the calling rank's array is returned without the reduction
fieldMaxLocal(Fr) == MaxOver(Fr[0], Cells)

\* localMax = blitz::max(blitz::abs(F)) of every rank, then MPI_Allreduce
fieldMax(Fr) == maxOfAll([r \in Ranks |-> MaxOver(Fr[r], Cells)], Ranks)

\* field::fieldMax
fFieldMax ==
    /\ mayApply
    /\ applied("fieldMax", 0, fF)
    /\ fMaxRet' = [r \in Ranks |-> Append(fMaxRet[r], fieldMax(fF))]
    /\ UNCHANGED <<fpc, fCalls>>

FieldNext ==
    \/ fConstruct
    \/ fAssign(One)
    \/ fAdd
    \/ fSub(One)
    \/ \E a \in Scalars : fScale(a)
    \/ fSyncData
    \/ fImposeSync
    \/ fImposeWalls
    \/ fFieldMax

FieldSpec == FieldInit /\ [][FieldNext]_vars

(***************************************************************************)
(* The Jacobi solves on their own: solveVx, solveVy, solveVz and solveT    *)
(* called on fields and right-hand sides drawn from a family that holds,   *)
(* for every field, the right-hand side the field solves exactly and its   *)
(* closest neighbours.                                                     *)
(***************************************************************************)
\* core values of the fields handed to the solves: a + b * (global x index)
phiCore(a, b, r, c) == a + b * (c[1] + coreSize[1] * r)

\* the fields of all ranks with these core values, halo exchanged and BCs imposed
phiField(name, a, b) ==
    settle([r \in Ranks |-> [c \in Cells |-> IF c \in core THEN phiCore(a, b, r, c) ELSE 0]],
           name)

\* the right-hand side of all ranks for which field Fr has the residual e at every
\* core cell, step size d and diffusion coefficient alpha
rhsFor(Fr, alpha, d, e) ==
    LET raw == [r \in Ranks |->
                  [c \in Cells |->
                      IF c \in core
                          THEN RSub(RSub(Fr[r][c],
                                         RMul(RMul(RMul(Half, d), alpha),
                                              RAdd(RAdd(d2xx(Fr[r], c), d2yy(Fr[r], c)),
                                                   d2zz(Fr[r], c)))), e)
                          ELSE 0]]
    IN  [r \in Ranks |-> syncData(raw, r)]

\* the state in which timeAdvance calls solveVx, for the fields and right-hand sides
\* of the family
KernelState(sc, tol, d, a, b, e) ==
        /\ inputParams = [lesModel |-> 0, cnTolerance |-> tol, tStp |-> d, xPer |-> FALSE,
                          yPer |-> FALSE, zPer |-> FALSE]
        /\ setup = [scalar |-> sc, TEST_POISSON |-> FALSE, wallKind |-> "dirichlet",
                    wallValue |-> 0, forcing |-> 0, init |-> "shear"]
        /\ dt = d
        /\ solTime = [r \in Ranks |-> 0]
        /\ pc = [r \in Ranks |-> "sweep"]
        /\ stepNo = [r \in Ranks |-> 0]
        /\ V = [r \in Ranks |-> [n \in Comps |-> phiField(n, a, b)[r]]]
        /\ P = [r \in Ranks |-> Fill(0)]
        /\ T = phiField("T", a, b)
        /\ nseRHS = [r \in Ranks |-> [n \in Comps |-> rhsFor(phiField(n, a, b), nu, d, e)[r]]]
        /\ tmpRHS = rhsFor(phiField("T", a, b), kappa, d, e)
        /\ pressureGradient = [r \in Ranks |-> vfFill(0)]
        /\ Pp = [r \in Ranks |-> Fill(0)]
        /\ mgRHS = [r \in Ranks |-> Fill(0)]
        /\ tempV = [r \in Ranks |-> [n \in Comps \cup {"T"} |-> Fill(0)]]
        /\ solving = [r \in Ranks |-> "Vx"]
        /\ iterCount = [r \in Ranks |-> 0]
        /\ sweeps = [r \in Ranks |-> 0]
        /\ locMax = [r \in Ranks |-> 0]
        /\ gloMax = [r \in Ranks |-> 0]
        /\ maxIterations = [r \in Ranks |-> maxIterationsOf(coreSize)]
        /\ sgsLES = [r \in Ranks |-> "unset"]
        /\ subgridEnergy = [r \in Ranks |-> 0]
        /\ sgCalls = [r \in Ranks |-> <<>>]
        /\ stdout = <<>>
        /\ exitCode = [r \in Ranks |-> 0 - 1]
        /\ entry = [r \in Ranks |-> [V |-> V[r], P |-> P[r], T |-> T[r]]]
        /\ lastWrite = [r \in Ranks |-> [V |-> "imposeBCs", P |-> "imposeBCs", T |-> "imposeBCs"]]
        /\ NoField(0)
        /\ NoThreads

KernelInit ==
    \E sc \in BOOLEAN, tol \in {0, tolLow, tolHigh}, d \in {Half, One},
       a \in {0, 1, One}, b \in {0, 3}, e \in {0 - 1, 0, 1} :
        KernelState(sc, tol, d, a, b, e)

KernelNext ==
    \/ \E r \in Ranks : sweep(r)
    \/ bcSync
    \/ \E r \in Ranks : residualStep(r)
    \/ allReduce
    \/ \E r \in Ranks : test(r)
    \/ \E r \in Ranks : abort(r)

KernelSpec == KernelInit /\ [][KernelNext]_vars

(***************************************************************************)
(* The operators of sfield on their own (sfield.cc:82-147): a program that *)
(* holds the scalar field T, the velocity V, a plain scalar field (tmpRHS)  *)
(* and a plain vector field (pressureGradient) with arbitrary contents and *)
(* calls T.computeDiff, T.computeNLin and T.gradient in any order.  The    *)
(* calls are local to a rank, so the ranks execute each in one step.       *)
(***************************************************************************)
\* the number of calls the program makes
MaxCalls == 3

\* a plain field that holds h on the core and different values outside it
plainWith(h) == [c \in Cells |-> IF c \in core THEN h ELSE junk + c[1]]

OperatorInit ==
    \E a \in {0, One}, b \in {0, 3}, va \in {Half, 0 - One}, h \in {0, One} :
        /\ inputParams = [lesModel |-> 0, cnTolerance |-> tolHigh, tStp |-> One, xPer |-> FALSE,
                          yPer |-> FALSE, zPer |-> FALSE]
        /\ setup = [scalar |-> TRUE, TEST_POISSON |-> FALSE, wallKind |-> "dirichlet",
                    wallValue |-> 0, forcing |-> 0, init |-> "shear"]
        /\ dt = One
        /\ solTime = [r \in Ranks |-> 0]
        /\ pc = [r \in Ranks |-> "idle"]
        /\ stepNo = [r \in Ranks |-> 0]
        /\ V = [r \in Ranks |-> [n \in Comps |-> phiField(n, va, 2)[r]]]
        /\ P = [r \in Ranks |-> Fill(0)]
        /\ T = phiField("T", a, b)
        /\ nseRHS = [r \in Ranks |-> vfFill(0)]
        /\ tmpRHS = [r \in Ranks |-> plainWith(h)]
        /\ pressureGradient = [r \in Ranks |-> [n \in Comps |-> plainWith(h)]]
        /\ Pp = [r \in Ranks |-> Fill(0)]
        /\ mgRHS = [r \in Ranks |-> Fill(0)]
        /\ tempV = [r \in Ranks |-> [n \in Comps \cup {"T"} |-> Fill(0)]]
        /\ solving = [r \in Ranks |-> "none"]
        /\ iterCount = [r \in Ranks |-> 0]
        /\ sweeps = [r \in Ranks |-> 0]
        /\ locMax = [r \in Ranks |-> 0]
        /\ gloMax = [r \in Ranks |-> 0]
        /\ maxIterations = [r \in Ranks |-> maxIterationsOf(coreSize)]
        /\ sgsLES = [r \in Ranks |-> "unset"]
        /\ subgridEnergy = [r \in Ranks |-> 0]
        /\ sgCalls = [r \in Ranks |-> <<>>]
        /\ stdout = <<>>
        /\ exitCode = [r \in Ranks |-> 0 - 1]
        /\ entry = [r \in Ranks |-> [V |-> V[r], P |-> P[r], T |-> T[r]]]
        /\ lastWrite = [r \in Ranks |-> [V |-> "imposeBCs", P |-> "imposeBCs", T |-> "imposeBCs"]]
        /\ NoField(0)
        /\ NoThreads

\* the program may make one more call
mayCall == Len(fLog) < MaxCalls

\* the call is made and logged
calls(op) ==
    /\ mayCall
    /\ fLog' = Append(fLog, [op |-> op, arg |-> 0])
    /\ UNCHANGED <<cfgVars, threadVars, loopVars, stepVars, nseRHS, Pp, mgRHS, tempV, fpc, fF, fPv, wallSlices,
                   fCalls, fSnap, fMaxRet>>

\* T.computeDiff(tmpRHS)
callComputeDiff ==
    /\ calls("computeDiff")
    /\ tmpRHS' = [r \in Ranks |-> computeDiff(T[r], tmpRHS[r])]
    /\ UNCHANGED pressureGradient

\* T.computeNLin(V, tmpRHS)
callComputeNLin ==
    /\ calls("computeNLin")
    /\ tmpRHS' = [r \in Ranks |-> computeNLin(T[r], V[r], tmpRHS[r])]
    /\ UNCHANGED pressureGradient

\* T.gradient(pressureGradient)
callGradient ==
    /\ calls("gradient")
    /\ pressureGradient' = [r \in Ranks |-> gradient(T[r], pressureGradient[r])]
    /\ UNCHANGED tmpRHS

OperatorNext ==
    \/ callComputeDiff
    \/ callComputeNLin
    \/ callGradient

OperatorSpec == OperatorInit /\ [][OperatorNext]_vars

(***************************************************************************)
(* The thread-parallel loops of a sweep (eulerCN_d3.cc:296-310, 316-329    *)
(* and the same loops of solveVy, solveVz, solveT).  The threads of one    *)
(* process, rank 0, are observed: an iteration of a loop is executed by    *)
(* one thread, whichever is free, and the iterations interleave in any     *)
(* order.  One step is one execution of the loop body: its reads, then its *)
(* write.  The loops of the other ranks share no memory with rank 0 and    *)
(* execute as in Spec.                                                     *)
(***************************************************************************)
\* mesh.inputParams.nThreads
NThreads == 2

Threads == 0 .. NThreads - 1

neighbours(c) == {Xp(c), Xm(c), Yp(c), Ym(c), Zp(c), Zm(c)}

\* the elements the update loop's body reads and writes for cell c: V.Vx.F at the six
\* neighbours, nseRHS.Vx and tempVx at the cell
updateAccesses(t, c) ==
    {[thread |-> t, kind |-> "read", array |-> "F", cell |-> n] : n \in neighbours(c)}
        \cup {[thread |-> t, kind |-> "read", array |-> "rhs", cell |-> c],
              [thread |-> t, kind |-> "write", array |-> "temp", cell |-> c]}

\* the elements the residual loop's body reads and writes for cell c
residualAccesses(t, c) ==
    {[thread |-> t, kind |-> "read", array |-> "F", cell |-> n] : n \in neighbours(c) \cup {c}}
        \cup {[thread |-> t, kind |-> "write", array |-> "temp", cell |-> c]}

\* the cells whose iteration has been executed in the running loop
written == {a.cell : a \in {b \in acc : b.kind = "write"}}

ThreadInit ==
    \E sc \in BOOLEAN, tol \in {0, tolHigh}, b \in {0, 3} :
        KernelState(sc, tol, One, One, b, 1)

\* #pragma omp parallel for of the update loop
forkUpdate ==
    /\ pc[0] = "sweep"
    /\ acc' = {}
    /\ atFork' = [F |-> fieldOf(0), temp |-> tempV[0][solving[0]]]
    /\ pc' = [pc EXCEPT ![0] = "update"]
    /\ UNCHANGED <<cfgVars, fieldVars, loopVars, scratchVars, solTime, stepNo, V, P, T, maxIterations,
                   sgsLES, subgridEnergy, sgCalls, stdout, exitCode, entry, lastWrite>>

\* variant: the update loop writes the candidate into the field itself
threadUpdateInPlace(t) ==
    /\ pc[0] = "update"
    /\ \E c \in sweepRange \ written :
          LET s == solving[0]
              x == jacobiCell(fieldOf(0), rhsOf(0), alphaOf(s), c)
          IN  /\ IF s = "T" THEN T' = [T EXCEPT ![0][c] = x] /\ V' = V
                            ELSE V' = [V EXCEPT ![0][s][c] = x] /\ T' = T
              /\ acc' = acc \cup {[thread |-> t, kind |-> "read", array |-> "F", cell |-> n] :
                                     n \in neighbours(c)}
                            \cup {[thread |-> t, kind |-> "read", array |-> "rhs", cell |-> c],
                                  [thread |-> t, kind |-> "write", array |-> "F", cell |-> c]}
    /\ UNCHANGED <<cfgVars, fieldVars, loopVars, scratchVars, solTime, stepNo, P, maxIterations,
                   sgsLES, subgridEnergy, sgCalls, stdout, exitCode, entry, lastWrite, pc, atFork>>

\* thread t executes the body of the update loop for a cell no thread has taken
threadUpdate(t) ==
    /\ pc[0] = "update"
    /\ \E c \in sweepRange \ written :
          LET s == solving[0]
          IN  /\ tempV' = [tempV EXCEPT ![0][s][c] = jacobiCell(fieldOf(0), rhsOf(0), alphaOf(s), c)]
              /\ acc' = acc \cup updateAccesses(t, c)
    /\ UNCHANGED <<cfgVars, fieldVars, loopVars, solTime, stepNo, V, P, T, nseRHS, tmpRHS,
                   pressureGradient, Pp, mgRHS, maxIterations, sgsLES, subgridEnergy, sgCalls,
                   stdout, exitCode, entry, lastWrite, pc, atFork>>

\* the end of the update loop and V.Vx.F = tempVx
joinUpdate ==
    /\ pc[0] = "update"
    /\ written = sweepRange
    /\ LET s == solving[0]
       IN  IF s = "T"
             THEN /\ T' = [T EXCEPT ![0] = tempV[0][s]]
                  /\ lastWrite' = [lastWrite EXCEPT ![0].T = "copy"]
                  /\ V' = V
             ELSE /\ V' = [V EXCEPT ![0][s] = tempV[0][s]]
                  /\ lastWrite' = [lastWrite EXCEPT ![0].V = "copy"]
                  /\ T' = T
    /\ sweeps' = [sweeps EXCEPT ![0] = sweeps[0] + 1]
    /\ pc' = [pc EXCEPT ![0] = "bcSync"]
    /\ UNCHANGED <<cfgVars, threadVars, fieldVars, scratchVars, solTime, stepNo, P, solving, iterCount,
                   locMax, gloMax, maxIterations, sgsLES, subgridEnergy, sgCalls, stdout,
                   exitCode, entry>>

\* the face BCs of the field and #pragma omp parallel for of the residual loop
forkResidual ==
    /\ pc[0] = "bcWalls"
    /\ LET s == solving[0]
           f == imposeWalls(fieldOf(0), 0, s)
       IN  /\ IF s = "T"
                 THEN /\ T' = [T EXCEPT ![0] = f]
                      /\ lastWrite' = [lastWrite EXCEPT ![0].T = "imposeBCs"]
                      /\ V' = V
                 ELSE /\ V' = [V EXCEPT ![0][s] = f]
                      /\ lastWrite' = [lastWrite EXCEPT ![0].V = "imposeBC"]
                      /\ T' = T
           /\ atFork' = [F |-> f, temp |-> tempV[0][s]]
    /\ acc' = {}
    /\ pc' = [pc EXCEPT ![0] = "residual"]
    /\ UNCHANGED <<cfgVars, fieldVars, loopVars, scratchVars, solTime, stepNo, P, maxIterations,
                   sgsLES, subgridEnergy, sgCalls, stdout, exitCode, entry>>

\* thread t executes the body of the residual loop for a cell no thread has taken
threadResidual(t) ==
    /\ pc[0] = "residual"
    /\ \E c \in sweepRange \ written :
          LET s == solving[0]
          IN  /\ tempV' = [tempV EXCEPT ![0][s][c] = residualCell(fieldOf(0), alphaOf(s), c)]
              /\ acc' = acc \cup residualAccesses(t, c)
    /\ UNCHANGED <<cfgVars, fieldVars, loopVars, solTime, stepNo, V, P, T, nseRHS, tmpRHS,
                   pressureGradient, Pp, mgRHS, maxIterations, sgsLES, subgridEnergy, sgCalls,
                   stdout, exitCode, entry, lastWrite, pc, atFork>>

\* the end of the residual loop, tempVx(core) = abs(tempVx(core) - nseRHS.Vx(core)) and locMax
joinResidual ==
    /\ pc[0] = "residual"
    /\ written = sweepRange
    /\ LET s == solving[0]
           t == [c \in Cells |-> IF c \in core THEN RAbs(RSub(tempV[0][s][c], rhsOf(0)[c]))
                                 ELSE tempV[0][s][c]]
       IN  /\ tempV' = [tempV EXCEPT ![0][s] = t]
           /\ locMax' = [locMax EXCEPT ![0] = MaxOver(t, core)]
    /\ pc' = [pc EXCEPT ![0] = "reduce"]
    /\ UNCHANGED <<cfgVars, threadVars, fieldVars, solTime, stepNo, V, P, T, nseRHS, tmpRHS,
                   pressureGradient, Pp, mgRHS, solving, iterCount, sweeps, gloMax, maxIterations,
                   sgsLES, subgridEnergy, sgCalls, stdout, exitCode, entry, lastWrite>>

ThreadNext ==
    \/ forkUpdate
    \/ \E t \in Threads : threadUpdate(t)
    \/ joinUpdate
    \/ \E r \in Ranks \ {0} : sweep(r)
    \/ bcSync
    \/ forkResidual
    \/ \E t \in Threads : threadResidual(t)
    \/ joinResidual
    \/ \E r \in Ranks \ {0} : residualStep(r)
    \/ allReduce
    \/ \E r \in Ranks : test(r)
    \/ \E r \in Ranks : abort(r)

ThreadSpec == ThreadInit /\ [][ThreadNext]_vars

(***************************************************************************)
(* Properties.                                                             *)
(***************************************************************************)
errorLines == {i \in 1 .. Len(stdout) : stdout[i][2] = "ERROR: Jacobi iterations not converging. Aborting"}

\* C1: a solve whose residual is not below cnTolerance once the iteration count has
\* exceeded maxIterations never returns to timeAdvance and ends the program with an
\* error: the process exits with a non-success status.
C1_FailureExitsWithError ==
    \A r \in Ranks :
        /\ pc[r] = "abort" => ~converged(r) /\ iterCount[r] > maxIterations[r]
        /\ pc[r] = "exited" => exitCode[r] > 0

\* the solve a rank has just returned from, "none" if it has not just returned
returnedFrom(r) ==
    IF pc[r] = "poisson" THEN (IF setup.scalar THEN "T" ELSE "Vz")
    ELSE IF pc[r] = "sweep" /\ sweeps[r] = 0
        THEN CASE solving[r] = "Vy" -> "Vx"
               [] solving[r] = "Vz" -> "Vy"
               [] solving[r] = "T" -> "Vz"
               [] OTHER -> "none"
    ELSE "none"

\* |phi - (alpha*dt/2)*L(phi) - rhs| at a core cell of rank q, for the field of solve s
absResidual(q, s, c) ==
    LET F == IF s = "T" THEN T[q] ELSE V[q][s]
        rhs == IF s = "T" THEN tmpRHS[q] ELSE nseRHS[q][s]
        L == RAdd(RAdd(d2xx(F, c), d2yy(F, c)), d2zz(F, c))
    IN  RAbs(RSub(RSub(F[c], RMul(RMul(RMul(Half, dt), alphaOf(s)), L)), rhs[c]))

\* C2: when a solve returns normally the field was last written by the imposition of
\* its boundary conditions, and the residual of every core cell of every rank is
\* strictly below cnTolerance.
C2_ReturnMeansConverged ==
    \A r \in Ranks :
        returnedFrom(r) # "none" =>
            /\ \A q \in Ranks : \A c \in core :
                  RLess(absResidual(q, returnedFrom(r), c), inputParams.cnTolerance)
            /\ IF returnedFrom(r) = "T" THEN lastWrite[r].T = "imposeBCs"
                                        ELSE lastWrite[r].V = "imposeBC"

\* a solve has returned with a residual that is not zero, after more than one sweep
C2_Witness ==
    \E r \in Ranks :
        /\ returnedFrom(r) # "none"
        /\ \E c \in core : absResidual(r, returnedFrom(r), c) > 0

\* C3: on a convergence failure one error message is written in the whole run, by
\* rank 0, and every rank fails in the same sweep of the same solve: no rank goes on
\* to a later solve or step once a rank has failed.
C3_CollectiveAbort ==
    /\ Cardinality(errorLines) <= 1
    /\ \A i \in errorLines : stdout[i][1] = 0
    /\ pc[0] = "exited" => Cardinality(errorLines) = 1
    /\ \A r, q \in Ranks :
          pc[r] \in {"abort", "exited"} =>
              /\ pc[q] \in {"test", "abort", "exited"}
              /\ solving[q] = solving[r]
              /\ stepNo[q] = stepNo[r]
              /\ sweeps[q] = sweeps[r]
              /\ pc[q] = "test" => ~converged(q) /\ exhausted(q)

\* every rank has terminated after a failure that took more than one sweep
C3_Witness ==
    /\ \A r \in Ranks : pc[r] = "exited" /\ sweeps[r] > 1
    /\ Cardinality(errorLines) = 1

\* where a rank may be while rank r stands at the convergence test
afterTest(r, q) ==
    IF converged(r)
        THEN /\ solving[q] = nextSolve(solving[r])
             /\ pc[q] \in (IF solving[q] = "none" THEN {"poisson", "mgSolve"} ELSE {"sweep", "bcSync"})
    ELSE IF exhausted(r)
        THEN pc[q] \in {"abort", "exited"} /\ solving[q] = solving[r]
    ELSE /\ solving[q] = solving[r]
         /\ iterCount[q] = iterCount[r] + 1
         /\ pc[q] \in {"sweep", "bcSync"}

\* C4: the ranks agree on convergence: they make the same number of sweeps and leave
\* the loop in the same iteration with the same outcome, and a rank waiting in the
\* all-reduce is never waiting for a rank that has left the loop.
C4_RanksAgree ==
    \A r, q \in Ranks :
        /\ maxIterations[r] = maxIterations[q] \/ "new" \in {pc[r], pc[q]}
        /\ pc[r] = "reduce" =>
              /\ pc[q] \in {"bcWalls", "reduce"}
              /\ solving[q] = solving[r] /\ sweeps[q] = sweeps[r]
              /\ iterCount[q] = iterCount[r] /\ stepNo[q] = stepNo[r]
        /\ pc[r] = "test" =>
              /\ stepNo[q] = stepNo[r]
              /\ IF pc[q] = "test"
                    THEN /\ solving[q] = solving[r] /\ sweeps[q] = sweeps[r]
                         /\ gloMax[q] = gloMax[r] /\ iterCount[q] = iterCount[r]
                         /\ converged(q) = converged(r) /\ exhausted(q) = exhausted(r)
                    ELSE afterTest(r, q)

\* the ranks stand at the test of a second sweep with residuals that differ
C4_Witness ==
    /\ \A r \in Ranks : pc[r] = "test" /\ sweeps[r] = 2
    /\ \E r, q \in Ranks : locMax[r] # locMax[q]

\* the cells of wall slice w that lie on the face proper, off its edges
faceCells(w) == {c \in fWalls(w) : \A d \in Axis \ {wallAxis(w)} : InCore(c, d)}

\* the walls whose BC sfield::imposeBCs applies
appliedWalls ==
    (IF inputParams.xPer THEN {} ELSE {0, 1}) \cup (IF inputParams.yPer THEN {} ELSE {2, 3})
        \cup {4, 5}

\* array A of rank r meets the configured BC on every physical face
bcHolds(A, r, name) ==
    \A w \in appliedWalls : physicalFace(r, w) =>
        \A c \in faceCells(w) :
            A[c] = IF bcOf(name, w).kind = "dirichlet" THEN bcOf(name, w).value
                   ELSE IF bcOf(name, w).kind = "periodic" THEN A[c]
                   ELSE A[Inward(c, w)]

\* the pads of rank r on the faces shared with a neighbour hold the neighbour's core layer
padsCurrent(Fr, r) ==
    /\ \A c \in faceCells(0) : leftRank(r) # NoRank =>
          Fr[r][c] = Fr[leftRank(r)][<<coreSize[1] - 1, c[2], c[3]>>]
    /\ \A c \in faceCells(1) : rightRank(r) # NoRank => Fr[r][c] = Fr[rightRank(r)][<<0, c[2], c[3]>>]
    /\ \A c \in faceCells(2) : inputParams.yPer => Fr[r][c] = Fr[r][<<c[1], coreSize[2] - 1, c[3]>>]
    /\ \A c \in faceCells(3) : inputParams.yPer => Fr[r][c] = Fr[r][<<c[1], 0, c[3]>>]

inCall(r) == pc[r] \notin {"new", "idle"}

C7_ConfigErrorRejected ==
    \A r \in Ranks :
        (dt < 0 \/ inputParams.lesModel \notin {0, 1, 2}) => pc[r] = "new"

\* C8: a timeAdvance call with dt = 0 has every intermediate quantity defined, the
\* right-hand side of the Poisson solve among them, and returns V, P, T as they were.
C8_ZeroStepChangesNothing ==
    \A r \in Ranks :
        dt = 0 =>
            /\ pc[r] = "mgSolve" => ArrFinite(mgRHS[r])
            /\ pc[r] = "return" => V[r] = entry[r].V /\ P[r] = entry[r].P /\ T[r] = entry[r].T

\* C9: from V = 0 and P = 0 with zero forcing, LES off, homogeneous BCs and a positive
\* tolerance, every cell of V and P is 0 before and after every timeAdvance call,
\* every solve converges after its first sweep and no step aborts.
C9_RestStaysAtRest ==
    (/\ setup.init = "zero" /\ setup.forcing = 0 /\ setup.wallValue = 0
     /\ inputParams.lesModel = 0 /\ inputParams.cnTolerance > 0 /\ ~setup.TEST_POISSON)
        => \A r \in Ranks :
              /\ pc[r] \in {"idle", "return"} =>
                    (\A n \in Comps : V[r][n] = Fill(0)) /\ P[r] = Fill(0)
              /\ sweeps[r] <= 1
              /\ pc[r] \notin {"abort", "exited"}

\* C10: in the TEST_POISSON build the hydrodynamic timeAdvance hands mgSolve the
\* constant 1 at every cell, and right after the pressure update P equals Pp at
\* every cell: the pressure held at entry is discarded.
C10_PoissonTestBuild ==
    \A r \in Ranks :
        testPoisson =>
            /\ pc[r] = "mgSolve" => \A c \in Cells : mgRHS[r][c] = One
            /\ pc[r] = "project" => \A c \in Cells : P[r][c] = Pp[r][c]

\* the pressure update of the test build has replaced a pressure that was not zero
C10_Witness ==
    \E r \in Ranks :
        /\ testPoisson /\ pc[r] = "project"
        /\ entry[r].P # Fill(0) /\ P[r] # entry[r].P /\ P[r] # Fill(0)


\* the cells whose element the update loop and the residual loop read or write
\* for cell c of the loop range (eulerCN_d3.cc:300-305 and 321-326)
stencil(c) == {c, Xp(c), Xm(c), Yp(c), Ym(c), Zp(c), Zm(c)}

lastOp == IF fLog = <<>> THEN "none" ELSE fLog[Len(fLog)].op

\* the names in sequence q
called(q) == {q[i] : i \in 1 .. Len(q)}

\* C12: sfield::imposeBCs performs the halo exchange first and the face BCs only
\* afterwards: no face BC is applied before the exchange; the left/right pair is
\* applied exactly when xPer is false, the front/back pair exactly when yPer is
\* false, and the top and bottom BCs always, whatever xPer, yPer and zPer are.
C12_SyncThenFaceBCs ==
    \A r \in Ranks :
        /\ fpc = "walls" => fCalls[r] = <<"syncData">> /\ fF[r] = syncData(fSnap, r)
        /\ (fpc = "ready" /\ lastOp = "imposeBCs") =>
              /\ fCalls[r][1] = "syncData"
              /\ \A i \in 2 .. Len(fCalls[r]) : fCalls[r][i] # "syncData"
              /\ {"tLft", "tRgt"} \subseteq called(fCalls[r]) <=> ~inputParams.xPer
              /\ {"tLft", "tRgt"} \cap called(fCalls[r]) # {} <=> ~inputParams.xPer
              /\ {"tFrn", "tBak"} \subseteq called(fCalls[r]) <=> ~inputParams.yPer
              /\ {"tFrn", "tBak"} \cap called(fCalls[r]) # {} <=> ~inputParams.yPer
              /\ {"tTop", "tBot"} \subseteq called(fCalls[r])
              /\ Len(fCalls[r]) = 1 + Cardinality(called(fCalls[r]) \ {"syncData"})

\* imposeBCs has run to its end in a domain periodic along y and z and walled along
\* x, on a field that its face BCs changed after the exchange
C12_Witness ==
    /\ fpc = "ready" /\ lastOp = "imposeBCs"
    /\ ~inputParams.xPer /\ inputParams.yPer /\ inputParams.zPer
    /\ \A r \in Ranks : fCalls[r] = <<"syncData", "tLft", "tRgt", "tTop", "tBot">>
    /\ \E r \in Ranks : fF[r] # syncData(fSnap, r)


\* the operations of the log from position i on
opsFrom(i) == [k \in 1 .. Len(fLog) - i + 1 |-> fLog[i + k - 1].op]

\* the log ends with the operations of sequence q
logEnds(q) == Len(fLog) >= Len(q) /\ opsFrom(Len(fLog) - Len(q) + 1) = q

lastMax(r) == fMaxRet[r][Len(fMaxRet[r])]
prevMax(r) == fMaxRet[r][Len(fMaxRet[r]) - 1]

\* m is the largest absolute value held by the arrays of all ranks, pads included
isGlobalMax(m) ==
    /\ \A q \in Ranks : \A c \in Cells : Abs(fF[q][c]) <= m
    /\ \E q \in Ranks : \E c \in Cells : Abs(fF[q][c]) = m

\* C14: fieldMax returns the same value on every rank, the maximum over the ranks
\* of the maximum absolute value of the rank's array; and fieldMax of the field
\* scaled by c is |c| times fieldMax of the field.
C14_FieldMax ==
    /\ \A r, q \in Ranks : fMaxRet[r] = fMaxRet[q]
    /\ (fpc = "ready" /\ lastOp = "fieldMax") => \A r \in Ranks : isGlobalMax(lastMax(r))
    /\ (fpc = "ready" /\ logEnds(<<"fieldMax", "*=", "fieldMax">>)) =>
          \A r \in Ranks : lastMax(r) = RMul(Abs(fLog[Len(fLog) - 1].arg), prevMax(r))

\* fieldMax was called before and after scaling a field whose largest value is held
\* by one rank only, and the product of the scaling was rounded
C14_Witness ==
    /\ fpc = "ready" /\ opsFrom(1) = <<"+=", "fieldMax", "*=", "fieldMax">>
    /\ \E r \in Ranks : MaxOver(fF[r], Cells) < lastMax(r)
    /\ \A r \in Ranks :
          /\ prevMax(r) > 0
          /\ lastMax(r) * Scale # Abs(fLog[3].arg) * prevMax(r)


\* C15: immediately after the construction of a field and of a plainvf every cell of
\* the field's array and of the three component arrays of the plainvf, over the
\* full index box, holds 0.
C15_ZeroAfterConstruction ==
    (fpc # "none" /\ fLog = <<>>) =>
        \A r \in Ranks : \A c \in Cells :
            /\ fF[r][c] = 0
            /\ \A n \in Comps : fPv[r][n][c] = 0

\* the constructors have run on memory that did not hold zeros
C15_Witness ==
    /\ fpc = "ready" /\ fLog = <<>>
    /\ \A r \in Ranks : \A c \in Cells : fSnap[r][c] # 0


\* core.lbound(d) and core.ubound(d)
coreLbound(d) == CHOOSE i \in coreDomain[d] : \A j \in coreDomain[d] : i <= j
coreUbound(d) == CHOOSE i \in coreDomain[d] : \A j \in coreDomain[d] : j <= i

\* wall slice S of wall w is one cell thick along the wall's normal, lies one cell
\* outside the core, spans the full box along the other two axes, and is part of
\* the full box and no part of the core
wallGeometry(S, w) ==
    LET d == wallAxis(w)
        n == IF w % 2 = 0 THEN coreLbound(d) - 1 ELSE coreUbound(d) + 1
    IN  /\ \A c \in S : c[d] = n
        /\ \A c \in Cells : c[d] = n => c \in S
        /\ S \cap core = {}
        /\ S \subseteq Cells
        /\ S # {}

\* C16: after construction each of the six wall slices is one cell thick along its
\* normal, at core.lbound - 1 (left, front, bottom) or core.ubound + 1 (right, back,
\* top), spans the full tangential extent of the array, is disjoint from the core and
\* inside the full box; and no later operation (+=, -=, =, *=, syncData, imposeBCs,
\* fieldMax) modifies a slice.
C16_WallSlices ==
    /\ [](fpc # "none" =>
            \A r \in Ranks : \A w \in 0 .. 5 : wallGeometry(wallSlices[r][w], w))
    /\ [][fpc # "none" => wallSlices' = wallSlices]_vars

\* operations of every kind have been applied to a constructed field
C16_Witness ==
    /\ fpc = "ready" /\ opsFrom(1) = <<"+=", "syncData", "imposeBCs", "fieldMax">>
    /\ \A r \in Ranks : wallSlices[r][5] = {c \in Cells : c[3] = coreSize[3]}


\* the pad cells of rank r beyond face w of the core, over the core's tangential
\* extent, hold what the core of rank q holds n cells further along the wall's axis
padsHold(Fr, r, w, q, n) ==
    \A c \in faceCells(w) : Fr[r][c] = Fr[q][[c EXCEPT ![wallAxis(w)] = c[wallAxis(w)] + n]]

\* every pad on a face that is no boundary of the domain holds the data of the core
\* that owns it: the neighbouring rank along x, the rank itself across a periodic axis
padsOfNeighbours(Fr) ==
    \A r \in Ranks :
        /\ (r > 0 \/ inputParams.xPer) =>
              padsHold(Fr, r, 0, (r + NRanks - 1) % NRanks, coreSize[1])
        /\ (r < NRanks - 1 \/ inputParams.xPer) =>
              padsHold(Fr, r, 1, (r + 1) % NRanks, 0 - coreSize[1])
        /\ inputParams.yPer => padsHold(Fr, r, 2, r, coreSize[2]) /\ padsHold(Fr, r, 3, r, 0 - coreSize[2])
        /\ inputParams.zPer => padsHold(Fr, r, 4, r, coreSize[3]) /\ padsHold(Fr, r, 5, r, 0 - coreSize[3])

\* C17: syncData is idempotent, a second call right after the first changes no cell
\* of any rank; and after either call each pad cell on a face that is no physical
\* boundary equals the core cell of the neighbour that owns it.
C17_SyncIdempotent ==
    /\ (fpc = "ready" /\ logEnds(<<"syncData", "syncData">>)) => fF = fSnap
    /\ (fpc = "ready" /\ lastOp = "syncData") => padsOfNeighbours(fF)

\* syncData was called twice on a field with data in its core in a domain periodic
\* along all axes, and the first call changed pads on every rank
C17_Witness ==
    /\ fpc = "ready" /\ opsFrom(1) = <<"+=", "syncData", "syncData">>
    /\ inputParams.xPer /\ inputParams.yPer /\ inputParams.zPer
    /\ \A r \in Ranks : fF[r] # sample(r)


\* ceiling((ln n)^3) for n = 1 .. 24
ceilCubedLog == <<0, 1, 2, 3, 5, 6, 8, 9, 11, 13, 14, 16, 17, 19, 20, 22, 23, 25, 26, 27, 29, 30, 31, 33>>

\* C18: the iteration cap set at construction is ceiling((ln(Nx*Ny*Nz))^3), with
\* Nx, Ny, Nz the core sizes of the local sub-domain.
C18_CapIsCeiling ==
    \A r \in Ranks :
        pc[r] # "new" => maxIterations[r] = ceilCubedLog[coreSize[1] * coreSize[2] * coreSize[3]]


\* rank r is inside the loop of a solve
inSolve(r) == pc[r] \in {"sweep", "bcSync", "bcWalls", "reduce", "test"}

\* a statement of the loop can be executed: a rank is at a local statement, or all
\* ranks have arrived at the same collective call of the same sweep
loopCanStep ==
    \/ \E r \in Ranks : pc[r] \in {"sweep", "bcWalls", "test"}
    \/ (allAt("bcSync") \/ allAt("reduce")) /\ sameSweep

\* C19: every call of solveVx, solveVy, solveVz or solveT terminates: no rank is
\* ever blocked inside the loop and the number of sweeps of a call is bounded, the
\* call starting no sweep once the completed sweeps that did not converge exceed
\* maxIterations; a call performs at least one sweep before it leaves the loop, and
\* leaves it only from the convergence test; its iteration counter starts at 0, so
\* that the budget is that of the call alone.
C19_SolveTerminates ==
    /\ []((\E r \in Ranks : inSolve(r)) => loopCanStep)
    /\ [](\A r \in Ranks :
            /\ pc[r] = "sweep" => iterCount[r] = sweeps[r] /\ iterCount[r] <= maxIterations[r]
            /\ inSolve(r) => sweeps[r] <= maxIterations[r] + 1
            /\ pc[r] = "test" => sweeps[r] >= 1)
    /\ [][\A r \in Ranks :
            (inSolve(r) /\ ~(inSolve(r)' /\ solving'[r] = solving[r])) => pc[r] = "test"]_vars

\* the fourth solve of a timeAdvance call is about to return from its second sweep,
\* the first one not having converged
C19_Witness ==
    \E r \in Ranks :
        /\ pc[r] = "test" /\ solving[r] = "T" /\ converged(r)
        /\ sweeps[r] = 2 /\ iterCount[r] = 1 /\ maxIterations[r] = 1


\* the candidate the update loop computes for core cell c of rank r
candidate(r, c) == jacobiCell(fieldOf(r), rhsOf(r), alphaOf(solving[r]), c)

\* the right-hand side of solve s on rank r
rhsOfSolve(r, s) == IF s = "T" THEN tmpRHS[r] ELSE nseRHS[r][s]

\* the residual of array F of rank r at core cell c, for solve s
residualAt(F, r, s, c) == RSub(residualCell(F, alphaOf(s), c), rhsOfSolve(r, s)[c])

\* the array of rank r that solve s was called with
calledWith(r, s) == IF s = "T" THEN entry[r].T ELSE entry[r].V[s]

\* the residual of the field solve s was called with is zero on the core of every rank
calledSolved(s) == \A r \in Ranks : \A c \in core : residualAt(calledWith(r, s), r, s, c) = 0

lapAt(F, c) == RAdd(RAdd(d2xx(F, c), d2yy(F, c)), d2zz(F, c))

convAt(F, r, c) ==
    RAdd(RAdd(RMul(entry[r].V.Vx[c], d1x(F, c)), RMul(entry[r].V.Vy[c], d1y(F, c))),
         RMul(entry[r].V.Vz[c], d1z(F, c)))

\* component n of grad(P), of the forcing and of the LES term of the momentum equation
gradPAt(r, n, c) ==
    CASE n = "Vx" -> d1x(entry[r].P, c) [] n = "Vy" -> d1y(entry[r].P, c)
      [] OTHER -> d1z(entry[r].P, c)

forcingAt(n) == IF n = "Vz" THEN setup.forcing ELSE 0

lesAt(r) == IF sgCalls[r] # <<>> THEN sgsTerm ELSE 0

lesTAt(r) == IF sgCalls[r] = <<4>> THEN sgsTerm ELSE 0

\* the solves of rank r are about to be called
solvesCalled(r) == pc[r] = "sweep" /\ solving[r] = "Vx" /\ sweeps[r] = 0

\* C21: the right-hand side handed to the Jacobi solves equals, on every core cell,
\* V + dt*((nu/2)*Lap(V) - (V.grad)V + forcing + LES - grad(P)) for each component
\* of the velocity and T + dt*((kappa/2)*Lap(T) - (V.grad)T + forcing + LES) for the
\* scalar, in the first call and in every later one: nothing of an earlier call is
\* left in the accumulators.
C21_RightHandSide ==
    \A r \in Ranks :
        solvesCalled(r) =>
            \A c \in core :
                /\ \A n \in Comps :
                      nseRHS[r][n][c] =
                          RAdd(entry[r].V[n][c],
                               RMul(dt, RSub(RAdd(RAdd(RSub(RMul(RDiv(nu, Two), lapAt(entry[r].V[n], c)),
                                                            convAt(entry[r].V[n], r, c)),
                                                       forcingAt(n)), lesAt(r)),
                                             gradPAt(r, n, c))))
                /\ setup.scalar =>
                      tmpRHS[r][c] =
                          RAdd(entry[r].T[c],
                               RMul(dt, RAdd(RAdd(RSub(RMul(RDiv(kappa, Two), lapAt(entry[r].T, c)),
                                                       convAt(entry[r].T, r, c)), 0), lesTAt(r))))

\* the solves are called in a second timeAdvance call, with a velocity that is
\* sheared and advects, a pressure gradient and both LES terms
C21_Witness ==
    \E r \in Ranks :
        /\ solvesCalled(r) /\ stepNo[r] = 1 /\ setup.scalar /\ sgCalls[r] = <<4>>
        /\ \E c \in core : convAt(entry[r].V.Vx, r, c) # 0 /\ gradPAt(r, "Vx", c) # 0
                           /\ lapAt(entry[r].V.Vx, c) # 0


\* component n of grad(Pp) of rank r at core cell c
gradPpAt(r, n, c) ==
    CASE n = "Vx" -> d1x(Pp[r], c) [] n = "Vy" -> d1y(Pp[r], c) [] OTHER -> d1z(Pp[r], c)

\* rank r executes Pp.gradient(pressureGradient); pressureGradient *= dt; V -= pressureGradient
projects(r) == pc[r] = "project" /\ pc'[r] = "syncV"

\* C22: in the correction step the quantity subtracted from V is dt*grad(Pp) on the
\* core cells and 0 on every pad cell, with nothing of the grad(P) that was computed
\* earlier in the same call left in pressureGradient; the subtraction leaves the pad
\* cells of V unchanged, and P has been increased by Pp once when it happens.
C22_Correction ==
    [][\A r \in Ranks :
          projects(r) =>
              /\ \A n \in Comps : \A c \in Cells :
                    /\ pressureGradient'[r][n][c] =
                           IF c \in core THEN RMul(gradPpAt(r, n, c), dt) ELSE 0
                    /\ V'[r][n][c] =
                           IF c \in core THEN RSub(V[r][n][c], RMul(gradPpAt(r, n, c), dt))
                           ELSE V[r][n][c]
              /\ ~testPoisson => P[r] = ArrAdd(entry[r].P, Pp[r])
              /\ P'[r] = P[r]]_vars

\* the correction has been made with a non-zero step from a pressure that had a
\* gradient at entry and a correction Pp with a gradient of its own
C22_Witness ==
    \E r \in Ranks :
        /\ pc[r] = "syncV" /\ dt # 0 /\ ~testPoisson
        /\ \E c \in core :
              /\ gradPAt(r, "Vx", c) # 0
              /\ gradPpAt(r, "Vx", c) # 0
              /\ pressureGradient[r].Vx[c] = RMul(gradPpAt(r, "Vx", c), dt)


\* the call of rank r is past the early-skip test, which let the LES call through
lesThrough(r) == inCall(r) /\ RLess(RMul(5 * One, inputParams.tStp), solTime[r])

\* C23: the LES mode selects the closure.  With lesModel = 0 timeAdvance makes no
\* LES call; with lesModel = 1 it calls computeSG(nseRHS, V) and the LES leaves
\* tmpRHS untouched; with lesModel = 2 the scalar overload calls
\* computeSG(nseRHS, tmpRHS, V, T).  This holds in every call whose LES call the
\* early skip does not suppress.
C23_ModeSelectsClosure ==
    \A r \in Ranks :
        /\ (inCall(r) /\ inputParams.lesModel = 0) => sgCalls[r] = <<>>
        /\ (lesThrough(r) /\ inputParams.lesModel = 1) =>
              /\ sgCalls[r] = <<2>>
              /\ (setup.scalar /\ solvesCalled(r)) =>
                    \A c \in core :
                        tmpRHS[r][c] =
                            RAdd(entry[r].T[c],
                                 RMul(dt, RSub(RMul(RDiv(kappa, Two), lapAt(entry[r].T, c)),
                                               convAt(entry[r].T, r, c))))
        /\ (lesThrough(r) /\ inputParams.lesModel = 2 /\ setup.scalar) => sgCalls[r] = <<4>>

\* the scalar overload has made the momentum-only call and is about to solve
C23_Witness ==
    \E r \in Ranks :
        /\ lesThrough(r) /\ inputParams.lesModel = 1 /\ setup.scalar /\ solvesCalled(r)
        /\ sgCalls[r] = <<2>>
        /\ \E c \in core : nseRHS[r].Vx[c] # entry[r].V.Vx[c]

\* C28: the LES model object is used only if it exists.  Whenever timeAdvance calls
\* computeSG the constructor has created the spiral model, the mode being non-zero;
\* with lesModel = 0 the pointer is never set and no call goes through it.
C28_ModelExistsWhenUsed ==
    \A r \in Ranks :
        /\ sgCalls[r] # <<>> => (sgsLES[r] = "spiral" /\ inputParams.lesModel # 0)
        /\ inputParams.lesModel = 0 => (sgsLES[r] = "unset" /\ sgCalls[r] = <<>>)

\* computeSG has been called through the pointer in a run of mode 2
C28_Witness ==
    \E r \in Ranks :
        inCall(r) /\ sgCalls[r] # <<>> /\ inputParams.lesModel = 2 /\ sgsLES[r] = "spiral"


\* rank r executes timeAdvance up to the halo exchange of the right-hand sides
entersCall(r) == pc[r] = "idle" /\ pc'[r] = "syncRHS"

\* C29: tsWriter.subgridEnergy is written only in a timeAdvance call in which
\* computeSG was called, and then holds the value computeSG returned; in every other
\* call, and outside the calls, it keeps the value it had.
C29_EnergyWrittenWithCall ==
    [][\A r \in Ranks :
          IF entersCall(r) /\ sgCalls'[r] # <<>>
             THEN subgridEnergy'[r] = sgsKE
             ELSE subgridEnergy'[r] = subgridEnergy[r]]_vars


\* rank r executes the update loop of a sweep and the copy of the scratch array
copies(r) == pc[r] = "sweep" /\ pc'[r] = "bcSync"

\* C26: the copy of the scratch array into the field transfers only values that the
\* update loop of the same sweep computed: the core cells receive their candidates,
\* and every cell outside the core (wall slice or pad) keeps the value the last halo
\* exchange or BC imposition gave it, no uninitialised or left-over scratch value
\* reaching the field.
C26_CopyOnlyComputed ==
    [][\A r \in Ranks :
          copies(r) =>
              \A c \in Cells :
                  fieldOf(r)'[c] =
                      IF c \in core THEN jacobiCell(fieldOf(r), rhsOf(r), alphaOf(solving[r]), c)
                      ELSE fieldOf(r)[c]]_vars

\* what uninitialised scratch storage may hold
Garbage == {0, junk}

\* the field of solve s on rank r after the sweep that is about to start and the BC
\* imposition that follows it, the scratch arrays of the ranks holding tmp
afterSweep(r, s, tmp) ==
    LET F(q) == IF s = "T" THEN T[q] ELSE V[q][s]
        copied == [q \in Ranks |-> jacobiUpdate(F(q), rhsOfSolve(q, s), alphaOf(s), tmp[q])]
    IN  imposeWalls(syncData(copied, r), r, s)

\* every rank is about to start the same sweep of the same solve
sweepStarts == allAt("sweep") /\ sameSweep

\* the fields at entry are at rest and nothing drives them
restInputs(r) ==
    /\ \A n \in Comps : entry[r].V[n] = Fill(0)
    /\ entry[r].P = Fill(0) /\ entry[r].T = Fill(0)
    /\ setup.forcing = 0 /\ setup.wallValue = 0 /\ inputParams.lesModel = 0

\* C25: timeAdvance is deterministic in its declared inputs, whatever the persistent
\* scratch storage holds.  The field a sweep leaves behind after its BC imposition is
\* the same for every content of the Jacobi scratch arrays, and a call made with the
\* fluid at rest and a non-zero step returns what it returns from zeroed scratch
\* storage: V, P and T at rest.
C25_ScratchIndependent ==
    /\ sweepStarts =>
          \A r \in Ranks : \A g \in Garbage :
              afterSweep(r, solving[r], [q \in Ranks |-> Fill(g)])
                  = afterSweep(r, solving[r], [q \in Ranks |-> tempV[q][solving[q]]])
    /\ \A r \in Ranks :
          (pc[r] = "return" /\ restInputs(r) /\ dt # 0 /\ ~testPoisson) =>
              /\ \A n \in Comps : V[r][n] = Fill(0)
              /\ P[r] = Fill(0) /\ T[r] = Fill(0)


\* rank r takes a step of the solve of component s
solveStep(r, s) ==
    /\ pc[r] \in {"sweep", "bcSync", "bcWalls", "reduce", "test"}
    /\ solving[r] = s

\* the right-hand side, the fields at the call and the scratch array of solve s, on which
\* alone its sweeps depend
solveInputs(r, s) == <<rhsOfSolve(r, s), IF s = "T" THEN T[r] ELSE V[r][s], tempV[r][s]>>

\* C27: each velocity solve touches only its own component.  A step of solveVx,
\* solveVy or solveVz changes no component of V other than its own and changes
\* neither P nor any component of nseRHS; the candidate it writes is computed from
\* its own component and its own right-hand side, so the fields and right-hand sides
\* of the other two solves are the same whichever solve runs first.
C27_SolveTouchesOwnComponent ==
    [][\A r \in Ranks : \A s \in Comps :
          solveStep(r, s) =>
              /\ \A n \in Comps \ {s} :
                    /\ V'[r][n] = V[r][n]
                    /\ solveInputs(r, n)' = solveInputs(r, n)
              /\ P'[r] = P[r]
              /\ nseRHS'[r] = nseRHS[r]
              /\ copies(r) =>
                    \A c \in core :
                        V'[r][s][c] = jacobiCell(V[r][s], nseRHS[r][s], nu, c)]_vars

\* solveVy has changed V.Vy while V.Vx, which differs from it, is as solveVx left it
C27_Witness ==
    \E r \in Ranks :
        /\ pc[r] = "bcSync" /\ solving[r] = "Vy"
        /\ V[r].Vy # entry[r].V.Vy
        /\ V[r].Vx # V[r].Vy


\* the operator called in the step that is being taken
calling(op) == fLog' = Append(fLog, [op |-> op, arg |-> 0])

\* (V.grad)T of rank r at core cell c
convTAt(r, c) ==
    RAdd(RAdd(RMul(V[r].Vx[c], d1x(T[r], c)), RMul(V[r].Vy[c], d1y(T[r], c))),
         RMul(V[r].Vz[c], d1z(T[r], c)))

\* component n of grad(T) of rank r at core cell c
gradTAt(r, n, c) ==
    CASE n = "Vx" -> d1x(T[r], c) [] n = "Vy" -> d1y(T[r], c) [] OTHER -> d1z(T[r], c)

\* C30: computeDiff, computeNLin and gradient change their output on the core cells
\* only and leave the scalar field as it is.  computeDiff adds the diffusion term to
\* the core values H holds and computeNLin subtracts the convective term from them,
\* so that a second computeDiff call adds the same contribution again; gradient
\* overwrites the core of the three components, so that a second call changes
\* nothing; every pad cell of the output keeps its value.
C30_OperatorsWriteCoreOnly ==
    [][\A r \in Ranks :
          /\ T'[r] = T[r] /\ V'[r] = V[r]
          /\ calling("computeDiff") =>
                /\ \A c \in Cells :
                      tmpRHS'[r][c] =
                          IF c \in core THEN RAdd(tmpRHS[r][c], lapAt(T[r], c)) ELSE tmpRHS[r][c]
                /\ \A c \in core :
                      RSub(computeDiff(T'[r], tmpRHS'[r])[c], tmpRHS[r][c])
                          = RMul(Two, RSub(tmpRHS'[r][c], tmpRHS[r][c]))
                /\ pressureGradient'[r] = pressureGradient[r]
          /\ calling("computeNLin") =>
                /\ \A c \in Cells :
                      tmpRHS'[r][c] =
                          IF c \in core THEN RSub(tmpRHS[r][c], convTAt(r, c)) ELSE tmpRHS[r][c]
                /\ pressureGradient'[r] = pressureGradient[r]
          /\ calling("gradient") =>
                /\ \A n \in Comps : \A c \in Cells :
                      pressureGradient'[r][n][c] =
                          IF c \in core THEN gradTAt(r, n, c) ELSE pressureGradient[r][n][c]
                /\ gradient(T'[r], pressureGradient'[r]) = pressureGradient'[r]
                /\ tmpRHS'[r] = tmpRHS[r]]_vars

\* computeDiff has been called twice in a row and gradient after it: the core of the
\* outputs has changed and their pad cells hold what they held before the calls
C30_Witness ==
    /\ Len(fLog) = 3
    /\ fLog[1].op = "computeDiff" /\ fLog[2].op = "computeDiff" /\ fLog[3].op = "gradient"
    /\ \E r \in Ranks : \E c \in core :
          /\ tmpRHS[r][c] \notin {0, One}
          /\ pressureGradient[r].Vx[c] = gradTAt(r, "Vx", c)
          /\ pressureGradient[r].Vx[c] \notin {0, One}
    /\ \A r \in Ranks : \A c \in Cells \ core :
          tmpRHS[r][c] = junk + c[1] /\ pressureGradient[r].Vx[c] = junk + c[1]


\* the solve rank 0 is in
threadSolve == solving[0]

\* what the loop that is running on rank 0 leaves in the scratch array when it is
\* executed sequentially from the state it was entered in
sequentially ==
    IF pc[0] = "update"
       THEN jacobiUpdate(atFork.F, rhsOf(0), alphaOf(threadSolve), atFork.temp)
       ELSE [c \in Cells |->
                IF c \in sweepRange THEN residualCell(atFork.F, alphaOf(threadSolve), c)
                ELSE atFork.temp[c]]

\* C24: within each thread-parallel loop of a sweep the array that is written is
\* distinct from every array that is read and no element is written by two threads
\* or written by one and read by another, so that, whichever thread executes which
\* iteration and in whatever order, every cell whose iteration has been executed
\* holds what sequential execution puts there, the other cells and the arrays read
\* are as they were when the loop was entered, and the scratch array after the
\* loop is the one sequential execution produces.
C24_LoopsRaceFree ==
    /\ \A a \in acc : \A b \in acc :
          /\ (a.kind = "write" /\ b.kind = "read") => a.array # b.array
          /\ (a.array = b.array /\ a.cell = b.cell /\ a.thread # b.thread) =>
                (a.kind = "read" /\ b.kind = "read")
    /\ pc[0] \in {"update", "residual"} =>
          /\ fieldOf(0) = atFork.F
          /\ \A c \in Cells :
                tempV[0][threadSolve][c] =
                    IF c \in written THEN sequentially[c] ELSE atFork.temp[c]
    /\ pc[0] = "bcSync" =>
          fieldOf(0) = jacobiUpdate(atFork.F, rhsOf(0), alphaOf(threadSolve), atFork.temp)
    /\ pc[0] = "reduce" =>
          tempV[0][threadSolve] = residual(atFork.F, rhsOf(0), alphaOf(threadSolve), atFork.temp)

\* the update loop of a second sweep has been executed to its end by two threads,
\* which have both read the same element of the field
C24_Witness ==
    /\ pc[0] = "update" /\ written = sweepRange /\ sweeps[0] = 1
    /\ \E a \in acc : \E b \in acc :
          /\ a.thread # b.thread /\ a.kind = "write" /\ b.kind = "write"
    /\ \E a \in acc : \E b \in acc :
          /\ a.thread # b.thread /\ a.array = "F" /\ b.array = "F" /\ a.cell = b.cell
    /\ tempV[0][threadSolve] # atFork.temp

====
